---------------------------- MODULE Spec2Model ----------------------------
(***************************************************************************)
(* A model of repo_utilities: the apt repository builder (build_repo,      *)
(* create_repo, create_packages, create_packages_gz, create_release_file,  *)
(* get_packages_hashes) and the signing chain (sign_repo, TempGPG, GPG2,   *)
(* TemporaryDirectory).  One build_repo call is a sequence of steps, one   *)
(* action per statement group of the source, so that the states a client   *)
(* of the published tree can observe during a run are states of the model. *)
(***************************************************************************)
EXTENDS Integers, Sequences, FiniteSets, TLC

(***************************************************************************)
(* Bounds of the model.                                                    *)
(***************************************************************************)
\* Number of build_repo calls in one behaviour.
MaxRuns == 2
\* Last second of the wall clock (the clock starts at 0).
MaxClock == 1
\* Number of signing operations that run side by side.
MaxOps == 2
\* Depth to which uses of change_cwd are nested.
MaxDepth == 3
\* Number of requests a CacheSession sends.
MaxRequests == 3

(***************************************************************************)
(* Inputs.                                                                 *)
(***************************************************************************)
Suites == {"stable", "testing"}

\* utils.py: ARCH
ARCH == {"amd64", "arm64", "all"}

\* The architecture lists a run is called with: the default of build_repo
\* and a caller-given list.
ArchLists == { <<"all", "amd64", "arm64">>, <<"arm64", "amd64">> }

\* Candidate package files: name, the name cut before each of its dots,
\* directory, and the architecture and index stanza (code points) the scanner
\* reads from a deb.
PkgA == [name |-> "a.deb", parts |-> <<"a", ".deb">>, dir |-> "build",
         arch |-> "amd64", stanza |-> <<97, 10>>]
PkgB == [name |-> "b.deb", parts |-> <<"b", ".deb">>, dir |-> "build",
         arch |-> "arm64", stanza |-> <<233, 10>>]
Tarball == [name |-> "c.tar.gz", parts |-> <<"c", ".tar", ".gz">>, dir |-> "build",
            arch |-> "none", stanza |-> << >>]
Readme == [name |-> "d.txt", parts |-> <<"d", ".txt">>, dir |-> "build",
           arch |-> "none", stanza |-> << >>]
\* A package whose stanza holds a carriage return before its line feed.
PkgD == [name |-> "e.deb", parts |-> <<"e", ".deb">>, dir |-> "build",
         arch |-> "all", stanza |-> <<98, 13, 10>>]
TarFile == [name |-> "f.tar", parts |-> <<"f", ".tar">>, dir |-> "build",
            arch |-> "none", stanza |-> << >>]
\* A file named .tar.gz: the leading dot starts no suffix.
HiddenTarball == [name |-> ".tar.gz", parts |-> <<"", ".tar", ".gz">>,
                  dir |-> "build", arch |-> "none", stanza |-> << >>]
\* A package that lies in the pool directory as a regular file; no index of
\* ARCH lists its architecture.
PkgZ == [name |-> "z.deb", parts |-> <<"z", ".deb">>, dir |-> "repo/pool/main",
         arch |-> "i386", stanza |-> <<122, 10>>]
\* Another file named a.deb, in another directory.
PkgA2 == [name |-> "a.deb", parts |-> <<"a", ".deb">>, dir |-> "release",
          arch |-> "amd64", stanza |-> <<65, 10>>]

PkgLists == { << >>, <<PkgA>>, <<Tarball, PkgB>>, <<PkgA, Readme>>,
              <<PkgA2, TarFile, PkgD, PkgZ>>, <<HiddenTarball>> }

Call(suite, arches, pkgs, key) ==
    [suite |-> suite, arches |-> arches, pkgs |-> pkgs, key |-> key]

\* What the private key file given to build_repo holds: one secret key, only
\* a public key (zero secret keys, valid OpenPGP data), or no OpenPGP data.
KeyFiles == {"secret", "public_only", "garbage"}

\* The build_repo calls of the model: the call with the default suite and
\* architectures, one package and a good key, and every call that differs
\* from it in one argument.
DefaultArches == <<"all", "amd64", "arm64">>
Calls ==
    {Call(s, DefaultArches, <<PkgA>>, "secret") : s \in Suites}
    \cup {Call("stable", a, <<PkgA>>, "secret") : a \in ArchLists}
    \cup {Call("stable", DefaultArches, p, "secret") : p \in PkgLists}
    \cup {Call("stable", DefaultArches, <<PkgA>>, k) : k \in KeyFiles}

(***************************************************************************)
(* Files: a path holds no file, << >>, or a file with one content, <<c>>.  *)
(***************************************************************************)
NoFile == << >>
File(c) == <<c>>
Exists(f) == f # << >>
Content(f) == f[1]

NoExc == [type |-> "none", at |-> "none"]
Exc(type, at) == [type |-> type, at |-> at]

(***************************************************************************)
(* pathlib                                                                 *)
(***************************************************************************)
\* name.lstrip("."): the index of the part that holds the first character
\* of the name that is no dot, looking from part k on of a name that begins
\* with a dot
RECURSIVE LeadingDots(_, _)
LeadingDots(parts, k) ==
    IF k < Len(parts) /\ parts[k] = "." THEN LeadingDots(parts, k + 1) ELSE k

\* PurePath.suffixes: none if the name ends with a dot; every leading dot
\* is stripped; what follows the first remaining dot is cut at the dots.
Suffixes(p) ==
    IF p.parts[Len(p.parts)] = "." THEN << >>
    ELSE IF p.parts[1] = ""
    THEN SubSeq(p.parts, LeadingDots(p.parts, 2) + 1, Len(p.parts))
    ELSE SubSeq(p.parts, 2, Len(p.parts))

\* PurePath.suffix: the name from its last dot on, if that dot is neither
\* the first nor the last character of the name; "" otherwise.
Suffix(p) ==
    IF /\ Len(p.parts) >= 2
       /\ p.parts[Len(p.parts)] # "."
       /\ ~(Len(p.parts) = 2 /\ p.parts[1] = "")
    THEN p.parts[Len(p.parts)] ELSE ""

\* pkg.suffixes[-2:]
LastTwoSuffixes(p) ==
    IF Len(Suffixes(p)) <= 2 THEN Suffixes(p)
    ELSE SubSeq(Suffixes(p), Len(Suffixes(p)) - 1, Len(Suffixes(p)))

Parent(path) == SubSeq(path, 1, Len(path) - 1)

\* path.relative_to(base), for a base that is a prefix of path
RelativeTo(path, base) == SubSeq(path, Len(base) + 1, Len(path))

BinaryDir(arch) ==
    CASE arch = "amd64" -> "binary-amd64"
      [] arch = "arm64" -> "binary-arm64"
      [] arch = "all" -> "binary-all"

\* create_packages: Path(repo) / "dists" / suite / "main" / binary_dir / "Packages"
PackagesFile(suite, arch) == <<"dists", suite, "main", BinaryDir(arch), "Packages">>

\* packages_file.with_suffix(".gz")
PackagesGzFile(packages_file) ==
    [packages_file EXCEPT ![Len(packages_file)] = "Packages.gz"]

(***************************************************************************)
(* Bytes                                                                   *)
(***************************************************************************)
\* str.encode("utf-8") of a sequence of code points below 2048
RECURSIVE Utf8(_)
Utf8(text) ==
    IF text = << >> THEN << >>
    ELSE LET c == Head(text) IN
         (IF c < 128 THEN <<c>> ELSE <<192 + (c \div 64), 128 + (c % 64)>>)
         \o Utf8(Tail(text))

\* bytes.decode("utf-8") of the encoding of code points below 2048
RECURSIVE Utf8Decode(_)
Utf8Decode(bytes) ==
    IF bytes = << >> THEN << >>
    ELSE IF Head(bytes) < 128
         THEN <<Head(bytes)>> \o Utf8Decode(Tail(bytes))
         ELSE <<(Head(bytes) - 192) * 64 + (bytes[2] - 128)>>
              \o Utf8Decode(Tail(Tail(bytes)))

\* Text-mode reading with newline=None: "\r\n" and "\r" become "\n".
RECURSIVE UniversalNewlines(_)
UniversalNewlines(text) ==
    IF text = << >> THEN << >>
    ELSE IF Head(text) = 13
         THEN <<10>> \o UniversalNewlines(
                  IF Len(text) > 1 /\ text[2] = 10 THEN Tail(Tail(text))
                  ELSE Tail(text))
         ELSE <<Head(text)>> \o UniversalNewlines(Tail(text))

\* Path.read_text("utf-8") of a file that holds bytes
ReadText(bytes) == UniversalNewlines(Utf8Decode(bytes))

\* A compressor that loses the last byte of its input.
GzipCompressTruncating(payload, time) ==
    <<31, 139, time>> \o SubSeq(payload, 1, Len(payload) - 1)
                      \o <<Len(payload) - 1>>

\* gzip.GzipFile(fileobj=BytesIO(), mode="wb") with no mtime argument: the
\* member header carries the magic bytes and MTIME, the time of the write;
\* then the payload and the trailer with ISIZE.
GzipCompress(payload, time) == <<31, 139, time>> \o payload \o <<Len(payload)>>

\* Reading a gzip member back: the payload between header and trailer.
GzipDecompress(gz) == SubSeq(gz, 4, Len(gz) - 1)

\* hashlib.<algorithm>(s).hexdigest(): a digest names its algorithm and input
HashFunc(s, hash_type) == <<hash_type, s>>

(***************************************************************************)
(* The package metadata scanner (dpkg_scanpackages.DpkgScanPackages), an   *)
(* external collaborator: the index of an architecture is the stanzas of   *)
(* the pool entries of that architecture, in name order.                   *)
(***************************************************************************)
Candidates == {PkgA, PkgB, Tarball, Readme, PkgD, TarFile, PkgA2, HiddenTarball,
               PkgZ}
PoolNames == {c.name : c \in Candidates}
NameOrder == <<".tar.gz", "a.deb", "b.deb", "c.tar.gz", "d.txt", "e.deb", "f.tar",
               "z.deb">>

RECURSIVE ScanFrom(_, _, _)
ScanFrom(entries, arch, k) ==
    IF k > Len(NameOrder) THEN << >>
    ELSE LET e == entries[NameOrder[k]] IN
         (IF Exists(e) /\ Content(e).arch = arch THEN Content(e).stanza ELSE << >>)
         \o ScanFrom(entries, arch, k + 1)

\* DpkgScanPackages(binary_path="pool/", arch=arch, ...).scan(): the index
\* text; << >> stands for "no packages" (ValueError).
ScanPackages(entries, arch) == ScanFrom(entries, arch, 1)

\* The bytes scan() leaves in the output file: the index text, encoded.
ScanOutput(entries, arch) == Utf8(ScanPackages(entries, arch))

(***************************************************************************)
(* Manifest Composer                                                       *)
(***************************************************************************)
\* dict: a sequence of entries in insertion order, one per key
RECURSIVE DictIndex(_, _, _)
DictIndex(d, arch, k) ==
    IF k > Len(d) THEN 0
    ELSE IF d[k].arch = arch THEN k ELSE DictIndex(d, arch, k + 1)

\* data[arch] = (packages, packages_gz)
DictSet(d, arch, packages, packages_gz) ==
    LET e == [arch |-> arch, packages |-> packages, packages_gz |-> packages_gz]
        k == DictIndex(d, arch, 1)
    IN  IF k = 0 THEN Append(d, e) ELSE [d EXCEPT ![k] = e]

\* A composer that lists every requested architecture, scanned or not.
ArchitecturesRequested(d) == DefaultArches

\* ' '.join(data): the keys in insertion order
Architectures(d) == [k \in 1..Len(d) |-> d[k].arch]

\* An entry line whose path is relative to the repository, not to the suite.
HashLineFromRepo(path, content, hash_type) ==
    <<" ", HashFunc(content, hash_type), " ", Len(content), " ", path>>

\* One line of a hash block: f" {hash_str} {char_count} {rel_path}"
HashLine(path, content, hash_type) ==
    <<" ", HashFunc(content, hash_type), " ", Len(content), " ",
      RelativeTo(path, Parent(Parent(Parent(path))))>>

\* A block whose plain-index entries give the number of characters of the
\* text beside the digest of its encoding.
ElemLinesCountingCharacters(packages, packages_gz, hash_type, k) ==
    [i \in 1..(2 * Len(packages)) |->
        IF i % 2 = 1
        THEN [HashLine(packages[(i + 1) \div 2][1],
                       Utf8(packages[(i + 1) \div 2][2]), hash_type)
                EXCEPT ![4] = Len(packages[(i + 1) \div 2][2])]
        ELSE HashLine(packages_gz[i \div 2][1], packages_gz[i \div 2][2], hash_type)]

\* A block that lists every plain index before the compressed indices.
ElemLinesPlainFirst(packages, packages_gz, hash_type, k) ==
    [i \in 1..Len(packages) |->
        HashLine(packages[i][1], Utf8(packages[i][2]), hash_type)]
    \o [i \in 1..Len(packages_gz) |->
        HashLine(packages_gz[i][1], packages_gz[i][2], hash_type)]

\* for elem in all_packages: for path, raw_content in elem: ...
RECURSIVE ElemLines(_, _, _, _)
ElemLines(packages, packages_gz, hash_type, k) ==
    IF k > Len(packages) THEN << >>
    ELSE << HashLine(packages[k][1], Utf8(packages[k][2]), hash_type),
            HashLine(packages_gz[k][1], packages_gz[k][2], hash_type) >>
         \o ElemLines(packages, packages_gz, hash_type, k + 1)

\* Headers that start with the strongest algorithm.
HeaderHashesStrongestFirst ==
    << <<"SHA256", "sha256">>, <<"SHA1", "sha1">>, <<"MD5Sum", "md5">> >>

\* headers, hashes: the header of each block and its hashlib algorithm
HeaderHashes == << <<"MD5Sum", "md5">>, <<"SHA1", "sha1">>, <<"SHA256", "sha256">> >>

RECURSIVE BlockLines(_, _, _)
BlockLines(packages, packages_gz, h) ==
    IF h > Len(HeaderHashes) THEN << >>
    ELSE << <<HeaderHashes[h][1], ":">> >>
         \o ElemLines(packages, packages_gz, HeaderHashes[h][2], 1)
         \o BlockLines(packages, packages_gz, h + 1)

\* get_packages_hashes(packages, packages_gz)
GetPackagesHashes(packages, packages_gz) == BlockLines(packages, packages_gz, 1)

\* zip(*data.values(), strict=False) yields nothing for an empty dict, and
\* unpacking it into (packages, packages_gz) raises ValueError.
UnpackFails(d) == d = << >>

\* create_release_file(data, suite), at time date
CreateReleaseFile(d, suite, date) ==
    LET packages == [k \in 1..Len(d) |-> d[k].packages]
        packages_gz == [k \in 1..Len(d) |-> d[k].packages_gz]
    IN  [ scalars |-> << <<"Origin", "Custom Repository">>,
                         <<"Label", "Custom">>,
                         <<"Suite", suite>>,
                         <<"Codename", suite>>,
                         <<"Version", "1.0">>,
                         <<"Architectures", Architectures(d)>>,
                         <<"Components", "main">>,
                         <<"Description",
                           "A set of packages not available in the official repositories.">>,
                         <<"Date", date>> >>,
          hashes |-> GetPackagesHashes(packages, packages_gz) ]

\* The Architectures value of a manifest
ManifestArchitectures(m) == m.scalars[6][2]

(***************************************************************************)
(* Signing Chain                                                           *)
(***************************************************************************)
TripleFiles == {"Release", "Release.gpg", "InRelease"}

\* The files a build publishes besides the indices: the triple of every suite
\* directory, and <repo>/pub.gpg.
PubKey == <<"repo", "pub.gpg">>
Published == (Suites \X TripleFiles) \cup {PubKey}

\* sign_repo: release = Path(root) / "dists" / "stable" / "Release"
SignRepoSuite == "stable"

\* What gpg --import leaves in the keyring for a key file, and whether the
\* process exits with status 0.
ImportedKey(key) == IF key = "garbage" THEN "empty" ELSE key
ImportExitsZero(key) == key # "garbage"

\* GPG._sign_file over a text with the keys of a keyring: the signature data,
\* empty when the keyring holds no secret key to sign with.
EmptyData == [mode |-> "none", over |-> << >>, embeds |-> << >>]
SignData(text, clearsign, detach, ring) ==
    IF ring # "secret" THEN EmptyData
    ELSE [mode |-> IF detach THEN "detach" ELSE "clearsign",
          over |-> <<text>>,
          embeds |-> IF clearsign /\ ~detach THEN <<text>> ELSE << >>]

\* gpg --export from a keyring: the public keys it holds
ExportData(ring) == IF ring \in {"secret", "public_only"} THEN <<"pubkey">> ELSE << >>

\* A chain whose sign_file writes its output over the file it signs.
SignOutputInPlace(detach) == "Release"

\* The file of the manifest's directory that a sign_file call of sign_repo
\* writes: release.with_suffix(".gpg") for the detached signature,
\* release.parent / "InRelease" for the clear-signed document.
SignOutput(detach) == IF detach THEN "Release.gpg" ELSE "InRelease"

\* A chain that clear-signs before it writes the detached signature.
SignRepoNextSwapped(step) ==
    CASE step = "import" -> "clearsign"
      [] step = "clearsign" -> "detach"
      [] step = "detach" -> "export"
      [] step = "export" -> "exit"

\* The statement that follows a step of the with-body of sign_repo
SignRepoNext(step) ==
    CASE step = "import" -> "detach"
      [] step = "detach" -> "clearsign"
      [] step = "clearsign" -> "export"
      [] step = "export" -> "exit"

\* TemporaryDirectory.cleanup: the directories left when directory home is
\* cleaned up with self.debug = debug
Cleanup(rings, home, debug) ==
    IF debug THEN rings ELSE [rings EXCEPT ![home] = "absent"]

(***************************************************************************)
(* utils.py: find_common_parent and symlinker.  A path is the sequence of  *)
(* its parts, "/" first.                                                   *)
(***************************************************************************)
\* The directory tree made at /srv, and the places it can be moved to.
TreeRoot == <<"/", "srv">>
Locations == { TreeRoot, <<"/", "mnt", "disk", "srv">>, <<"/", "s">> }

\* Source files and link paths given to symlinker, as they were made.
LinkSources == { <<"/", "srv", "build", "a.deb">>,
                 <<"/", "srv", "repo", "pool", "a.deb">>,
                 <<"/", "srv", "repo", "pool", "main", "b.deb">>,
                 <<"/", "srv", "repo", "pool", "main", "sub", "a.deb">>,
                 <<"/", "home", "u", "a.deb">> }
LinkTargets == { <<"/", "srv", "repo", "pool", "main", "a.deb">>,
                 <<"/", "srv", "conda", "a.deb">> }

InTree(path) == Len(path) >= 2 /\ SubSeq(path, 1, 2) = TreeRoot

\* Where a path is when the tree is at place: Path(path).resolve()
Located(path, place) ==
    IF InTree(path) THEN place \o SubSeq(path, 3, Len(path)) ELSE path

\* for parts in zip(*split_paths, strict=False): the leading parts that are
\* the same in both paths, up to the first difference
RECURSIVE CommonParts(_, _, _)
CommonParts(a, b, k) ==
    IF k > Len(a) \/ k > Len(b) THEN << >>
    ELSE IF a[k] = b[k] THEN <<a[k]>> \o CommonParts(a, b, k + 1)
    ELSE << >>

\* find_common_parent(src, target)
FindCommonParent(a, b) == CommonParts(a, b, 1)

\* "../" * n, as path parts
DotDots(n) == [i \in 1..n |-> ".."]

\* A link text with one ".." for each part of rel_target, its name included.
RelSymlinkCountingName(rel_src, rel_target) == DotDots(Len(rel_target)) \o rel_src

\* Path("../" * len(rel_target.parent.parts)) / rel_src
RelSymlink(rel_src, rel_target) == DotDots(Len(Parent(rel_target))) \o rel_src

\* What the operating system resolves a link text to, from directory dir
RECURSIVE Walk(_, _)
Walk(dir, text) ==
    IF text = << >> THEN dir
    ELSE Walk(IF Head(text) = ".."
              THEN (IF Len(dir) > 1 THEN Parent(dir) ELSE dir)
              ELSE Append(dir, Head(text)),
              Tail(text))

(***************************************************************************)
(* Inputs of TempGPG, change_cwd, build_tap and CacheSession.              *)
(***************************************************************************)
\* The signing operations, and the names tempfile.mkdtemp can draw for a
\* directory tmp_TempGPG_<name> below the directory given as dir.
Ops == 1..MaxOps
DirNames == 1..(MaxOps + 1)

\* Directories of the process: the one it starts in, the repository, and
\* directories code that runs inside a change_cwd block may change to.
StartDir == <<"/", "work">>
Dirs == {StartDir, <<"/", "srv", "repo">>, <<"/", "srv", "repo", "pool">>, <<"/", "tmp">>}

\* The directories of a tap and the file names of the model.
TapDirs == {"Casks", "Formula"}
TapNames == {"x.rb", "y.rb"}
\* The entries of a directory of the tap: the Ruby files and the marker.
TapEntries == TapNames \cup {".empty"}
\* The version a Ruby file declares; NoVersion is a file without a version line.
TapVersions == {"1.0", "2.0", "10000.0", "latest"}
NoVersion == ""
\* The files build_tap is given; z.txt is not a Ruby file.
TapFiles ==
    [name : TapNames, text : TapVersions]
    \cup { [name |-> "x.rb", text |-> NoVersion], [name |-> "z.txt", text |-> "1.0"] }
\* The lists of casks (up to two files) and of formulae (up to one file).
TapCasks ==
    { << >> } \cup { <<f>> : f \in TapFiles }
    \cup { <<f, g>> : f \in TapFiles, g \in TapFiles }
TapFormulae ==
    { << >> } \cup { <<f>> : f \in {g \in TapFiles : g.name = "x.rb" /\ g.text \in {"1.0", "2.0"}} }

\* The URLs of the model.
Urls == {"u", "v"}
\* The stream argument of CacheSession.get: True, False (the default) or None.
Streams == {"True", "False", "None"}

(***************************************************************************)
(* State                                                                   *)
(***************************************************************************)
VARIABLES
    pc,            \* the statement build_repo is at; "idle" between calls
    args,          \* the arguments of the current (or last) build_repo call
    idx,           \* position of the running for loop
    data,          \* create_repo: data
    exc,           \* the exception the last call ended with, or NoExc
    run,           \* number of build_repo calls started
    now,           \* the wall clock, in seconds
    tmpdir_debug,  \* whether TMPDIR_DEBUG is set in the process environment
    pool,          \* <repo>/pool/main: name -> the file the entry resolves to
    supplied,      \* history: name -> the file last given to the pool linker
    packages,      \* <repo>/dists/<suite>/main/binary-<arch>/Packages
    packages_gz,   \* <repo>/dists/<suite>/main/binary-<arch>/Packages.gz
    release,       \* <repo>/dists/<suite>/Release
    release_gpg,   \* <repo>/dists/<suite>/Release.gpg
    inrelease,     \* <repo>/dists/<suite>/InRelease
    pub_gpg,       \* <repo>/pub.gpg
    keyrings,      \* the temporary GPG home directories: id -> keys held
    gpg_home,      \* the home directory of the current TempGPG, 0 for none
    unfinalized,   \* directories whose TemporaryDirectory awaits its finalizer
    chain,         \* history: steps of the signing chain completed in this call
    scanned,       \* history: architectures the scanner produced an index for
    gen,           \* history: the call that wrote each published file, 0 for none
    links,         \* symlinker: link path -> the link there (text, source)
    srv,           \* symlinker: where the directory tree made at /srv is now
    link_exc,      \* symlinker: the exception the last call ended with
    previous,      \* create_packages: the merge hint the scanner was last given
    ring_dirs,     \* TempGPG: directory name -> the keyring directory there
    ring_ops,      \* TempGPG: operation -> where it is, and its directory
    gz_ret,        \* create_packages_gz: how the last call ended
    cwd,           \* change_cwd: the working directory of the process
    frames,        \* change_cwd: the cwd each open block saved, innermost last
    cwd_exc,       \* change_cwd: the exception that left the last block
    tap,           \* build_tap: directory -> file name -> the file pushed
    tap_exc,       \* build_tap: the exception the last call ended with
    cache,         \* CacheSession: self.cache, URL -> response
    sent,          \* CacheSession: the requests Session.get was given (history)
    returned       \* CacheSession: how the last get ended

vars == <<pc, args, idx, data, exc, run, now, tmpdir_debug, pool, supplied, packages,
          packages_gz, release, release_gpg, inrelease, pub_gpg, keyrings,
          gpg_home, unfinalized, chain, scanned, gen, links, srv, link_exc,
          previous, ring_dirs, ring_ops, gz_ret, cwd, frames, cwd_exc, tap, tap_exc,
          cache, sent, returned>>

fsIndex == <<packages, packages_gz>>
fsTriple == <<release, release_gpg, inrelease, gen>>
fsGpg == <<keyrings, gpg_home, unfinalized, chain>>
env == <<now, tmpdir_debug>>
fsLinks == <<links, srv, link_exc>>

\* The variables of the parts of the package that build_repo does not use.
ringVars == <<ring_dirs, ring_ops>>
cwdVars == <<cwd, frames, cwd_exc>>
tapVars == <<tap, tap_exc>>
cacheVars == <<cache, sent, returned>>
restVars == <<ringVars, gz_ret, cwdVars, tapVars, cacheVars>>
apart == <<fsLinks, restVars>>

Init ==
    /\ pc = "idle"
    /\ args = Call("stable", << >>, << >>, "secret")
    /\ idx = 0
    /\ data = << >>
    /\ exc = NoExc
    /\ run = 0
    /\ now = 0
    /\ tmpdir_debug \in BOOLEAN
    /\ pool = [n \in PoolNames |-> IF n = PkgZ.name THEN File(PkgZ) ELSE NoFile]
    /\ supplied = [n \in PoolNames |-> NoFile]
    /\ packages = [s \in Suites |-> [a \in ARCH |-> NoFile]]
    /\ packages_gz = [s \in Suites |-> [a \in ARCH |-> NoFile]]
    /\ release = [s \in Suites |-> NoFile]
    /\ release_gpg = [s \in Suites |-> NoFile]
    /\ inrelease = [s \in Suites |-> NoFile]
    /\ pub_gpg = NoFile
    /\ keyrings = [k \in 1..MaxRuns |-> "absent"]
    /\ gpg_home = 0
    /\ unfinalized = {}
    /\ chain = << >>
    /\ scanned = {}
    /\ gen = [f \in Published |-> 0]
    /\ links = [t \in LinkTargets |-> NoFile]
    /\ srv = TreeRoot
    /\ link_exc = "none"
    /\ previous = << >>
    /\ ring_dirs = [n \in DirNames |-> NoFile]
    /\ ring_ops = [p \in Ops |-> [at |-> "out", home |-> 0]]
    /\ gz_ret = [skip_update |-> FALSE, value |-> << >>, exc |-> "none"]
    /\ cwd = StartDir
    /\ frames = << >>
    /\ cwd_exc = "none"
    /\ tap = [d \in TapDirs |-> [n \in TapEntries |-> NoFile]]
    /\ tap_exc = "none"
    /\ cache = [u \in Urls |-> NoFile]
    /\ sent = << >>
    /\ returned = [url |-> "", stream |-> "False", value |-> 0, exc |-> "none"]

\* An exception leaves build_repo: the call ends with it.
Raise(type, at) ==
    /\ pc' = "idle"
    /\ exc' = Exc(type, at)

(***************************************************************************)
(* The environment: the clock of the machine, which runs on between the    *)
(* calls and between the statements of a call.                             *)
(***************************************************************************)
Tick ==
    /\ now < MaxClock
    /\ now' = now + 1
    /\ UNCHANGED <<pc, args, idx, data, exc, run, tmpdir_debug, pool, supplied, previous, apart, fsIndex,
                   fsTriple, pub_gpg, fsGpg, scanned>>

(***************************************************************************)
(* build_repo                                                              *)
(***************************************************************************)
\* The call, and the creation of the binary-<arch> and pool directories.
BuildRepo(call) ==
    /\ pc = "idle"
    /\ run < MaxRuns
    /\ run' = run + 1
    /\ args' = call
    /\ pc' = "link"
    /\ idx' = 1
    /\ data' = << >>
    /\ exc' = NoExc
    /\ chain' = << >>
    /\ scanned' = {}
    /\ gpg_home' = 0
    /\ previous' = << >>
    /\ UNCHANGED <<env, pool, supplied, apart, fsIndex, fsTriple, pub_gpg, keyrings, unfinalized>>

\* A test that knows .tar only.
IsArchiveTarOnly(pkg) == Suffix(pkg) = ".tar"

\* pkg.suffix == ".tar" or pkg.suffixes[-2:] == [".tar", ".gz"]
IsArchive(pkg) == Suffix(pkg) = ".tar" \/ LastTwoSuffixes(pkg) = <<".tar", ".gz">>

\* main = repo / "pool" / "main"
PoolDir == "repo/pool/main"
PoolMain == [name |-> "main", parts |-> <<"main">>, dir |-> "repo/pool",
             arch |-> "none", stanza |-> << >>]

\* What the link symlinker(pkg, main / pkg.name) creates resolves to, made
\* after main / pkg.name was unlinked: the file pkg, or, when pkg is the path
\* main / pkg.name itself, the directory main (the link text is then ".").
LinkTarget(pkg) == IF pkg.dir = PoolDir THEN PoolMain ELSE pkg

\* target_pkg.unlink(missing_ok=True); symlinker(pkg, target_pkg)
LinkInto(entries, pkg) ==
    [[entries EXCEPT ![pkg.name] = NoFile] EXCEPT ![pkg.name] = File(LinkTarget(pkg))]

\* A linker that links a candidate before it tests its extension.
RejectedPoolLinked(entries, pkg) == LinkInto(entries, pkg)

\* The pool when raise ValueError is reached: the test of the extension
\* comes before target_pkg.unlink and symlinker.
RejectedPool(entries, pkg) == entries

\* Path(raw_pkg).resolve(): a path into pool/main whose entry is a link is
\* followed to what the link resolves to; every other path of the model is
\* a regular file and resolves to itself.
ResolvedPkg(entries, raw_pkg) ==
    IF raw_pkg.dir = PoolDir /\ Exists(entries[raw_pkg.name])
    THEN Content(entries[raw_pkg.name]) ELSE raw_pkg

\* One iteration of: for raw_pkg in pkgs
LinkPkg ==
    /\ pc = "link"
    /\ idx <= Len(args.pkgs)
    /\ LET pkg == ResolvedPkg(pool, args.pkgs[idx]) IN
         IF Suffix(pkg) # ".deb"
         THEN IF IsArchive(pkg)
              THEN /\ idx' = idx + 1
                   /\ UNCHANGED <<pc, exc, pool, supplied>>
              ELSE /\ Raise("ValueError", "link")
                   /\ pool' = RejectedPool(pool, pkg)
                   /\ UNCHANGED <<idx, supplied>>
         ELSE /\ pool' = LinkInto(pool, pkg)
              /\ supplied' = [supplied EXCEPT ![pkg.name] = File(pkg)]
              /\ idx' = idx + 1
              /\ UNCHANGED <<pc, exc>>
    /\ UNCHANGED <<args, data, run, env, previous, apart, fsIndex, fsTriple, pub_gpg, fsGpg,
                   scanned>>

\* The loop over pkgs ends: create_repo(repo, suite, arches) is called.
LinkDone ==
    /\ pc = "link"
    /\ idx > Len(args.pkgs)
    /\ pc' = "unlink_release"
    /\ UNCHANGED <<args, idx, data, exc, run, env, pool, supplied, previous, apart, fsIndex, fsTriple,
                   pub_gpg, fsGpg, scanned>>

(***************************************************************************)
(* create_repo                                                             *)
(***************************************************************************)
\* release_file.unlink(missing_ok=True)
UnlinkRelease ==
    /\ pc = "unlink_release"
    /\ release' = [release EXCEPT ![args.suite] = NoFile]
    /\ gen' = [gen EXCEPT ![<<args.suite, "Release">>] = 0]
    /\ pc' = "unlink_inrelease"
    /\ UNCHANGED <<args, idx, data, exc, run, env, pool, supplied, previous, apart, fsIndex, release_gpg,
                   inrelease, pub_gpg, fsGpg, scanned>>

\* inrelease_file.unlink(missing_ok=True)
UnlinkInRelease ==
    /\ pc = "unlink_inrelease"
    /\ inrelease' = [inrelease EXCEPT ![args.suite] = NoFile]
    /\ gen' = [gen EXCEPT ![<<args.suite, "InRelease">>] = 0]
    /\ pc' = "unlink_release_gpg"
    /\ UNCHANGED <<args, idx, data, exc, run, env, pool, supplied, previous, apart, fsIndex, release,
                   release_gpg, pub_gpg, fsGpg, scanned>>

\* release_gpg.unlink(missing_ok=True), and the list of old Packages files
UnlinkReleaseGpg ==
    /\ pc = "unlink_release_gpg"
    /\ release_gpg' = [release_gpg EXCEPT ![args.suite] = NoFile]
    /\ gen' = [gen EXCEPT ![<<args.suite, "Release.gpg">>] = 0]
    /\ pc' = "scan"
    /\ idx' = 1
    /\ UNCHANGED <<args, data, exc, run, env, pool, supplied, previous, apart, fsIndex, release, inrelease,
                   pub_gpg, fsGpg, scanned>>

\* A loop over the architectures that ends after its first iteration.
ArchesExhaustedAfterFirst(arches, i) == i > 1

\* for arch in arches, about to take element i: the loop has ended
ArchesExhausted(arches, i) == i > Len(arches)

\* Where the repository is: Path(p).resolve() of a path below it
RepoRoot == <<"/", "srv", "repo">>
Resolve(path) == RepoRoot \o path

\* A hint that names the index of every requested architecture.
PreviousUnfiltered(indices, suite, arches) ==
    [k \in 1..Len(arches) |-> Resolve(PackagesFile(suite, arches[k]))]

\* tuple(str(Path(p).resolve()) for p in previous if Path(p).is_file()), from
\* element k of old_packages_files on
RECURSIVE PreviousFrom(_, _, _, _)
PreviousFrom(indices, suite, arches, k) ==
    IF k > Len(arches) THEN << >>
    ELSE (IF Exists(indices[suite][arches[k]])
          THEN <<Resolve(PackagesFile(suite, arches[k]))>> ELSE << >>)
         \o PreviousFrom(indices, suite, arches, k + 1)

\* The previous argument create_packages gives the scanner, for the
\* old_packages_files of create_repo
Previous(indices, suite, arches) == PreviousFrom(indices, suite, arches, 1)

\* The exceptions scan() can end with: ValueError when the pool holds no
\* package of the architecture, and, at any time, a hard failure, which is
\* no ValueError.
ScanRaises(entries, arch) ==
    {"ScanError"}
    \cup (IF ScanPackages(entries, arch) = << >> THEN {"ValueError"} ELSE {})

\* A handler that catches every exception.
CaughtAny(type) == TRUE

\* except ValueError, around create_packages
Caught(type) == type = "ValueError"

\* One iteration of: for arch in arches: create_packages, create_packages_gz
\* The scanner takes its time: the clock shows later when it is done, and
\* that is the time gzip reads.
ScanArch ==
    /\ pc = "scan"
    /\ ~ArchesExhausted(args.arches, idx)
    /\ \E later \in now..MaxClock :
       LET arch == args.arches[idx]
           output == ScanOutput(pool, arch)
           text == ReadText(output)
           packages_file == PackagesFile(args.suite, arch)
           gz == GzipCompress(Utf8(text), later)
       IN  /\ now' = later
           /\ \/ \* the scanner raises
                 \E type \in ScanRaises(pool, arch) :
                     IF Caught(type)
                     THEN \* continue  (no packages)
                          /\ idx' = idx + 1
                          /\ UNCHANGED <<pc, exc, data, fsIndex, scanned>>
                     ELSE \* the exception leaves create_repo and build_repo
                          /\ Raise(type, "scan")
                          /\ UNCHANGED <<idx, data, fsIndex, scanned>>
              \/ \* the index is written and read back, compressed and recorded
                 /\ ScanPackages(pool, arch) # << >>
                 /\ packages' = [packages EXCEPT ![args.suite][arch] = File(output)]
                 /\ packages_gz' = [packages_gz EXCEPT ![args.suite][arch] = File(gz)]
                 /\ data' = DictSet(data, arch, <<packages_file, text>>,
                                    <<PackagesGzFile(packages_file), gz>>)
                 /\ scanned' = scanned \cup {arch}
                 /\ idx' = idx + 1
                 /\ UNCHANGED <<pc, exc>>
    /\ previous' = Previous(packages, args.suite, args.arches)
    /\ UNCHANGED <<args, run, tmpdir_debug, pool, supplied, apart, fsTriple, pub_gpg,
                   fsGpg>>

\* release = create_release_file(data, suite); release_file.write_text(release)
WriteRelease ==
    /\ pc = "scan"
    /\ ArchesExhausted(args.arches, idx)
    /\ IF UnpackFails(data)
       THEN /\ Raise("ValueError", "create_release_file")
            /\ UNCHANGED <<release, gen>>
       ELSE /\ release' = [release EXCEPT ![args.suite] =
                               File(CreateReleaseFile(data, args.suite, now))]
            /\ gen' = [gen EXCEPT ![<<args.suite, "Release">>] = run]
            /\ pc' = "enter"
            /\ exc' = exc
    /\ previous' = << >>
    /\ UNCHANGED <<args, idx, data, run, env, pool, supplied, apart, fsIndex, release_gpg,
                   inrelease, pub_gpg, fsGpg, scanned>>

(***************************************************************************)
(* sign_repo                                                               *)
(***************************************************************************)
\* with TempGPG(tmp) as gpg: TempGPG.__enter__
EnterTempGPG ==
    /\ pc = "enter"
    /\ \/ \* the directory is made and GPG2(homedir=pgp_tmp) returned
          /\ keyrings' = [keyrings EXCEPT ![run] = "empty"]
          /\ gpg_home' = run
          /\ pc' = "import"
          /\ UNCHANGED <<exc, unfinalized>>
       \/ \* TemporaryDirectory(...) raises: no directory is made and there
          \* is no TemporaryDirectory to finalize
          /\ Raise("OSError", "enter")
          /\ UNCHANGED <<keyrings, gpg_home, unfinalized>>
       \/ \* pgp_tmp.mkdir or GPG2() raises: __exit__ is not called
          /\ keyrings' = [keyrings EXCEPT ![run] = "empty"]
          /\ unfinalized' = unfinalized \cup {run}
          /\ Raise("OSError", "enter")
          /\ UNCHANGED gpg_home
    /\ UNCHANGED <<args, idx, data, run, env, pool, supplied, previous, apart, fsIndex, fsTriple, pub_gpg,
                   chain, scanned>>

\* An exception in the with-body: TempGPG.__exit__ runs before it leaves.
Abort(type, at) ==
    /\ pc' = "exit"
    /\ exc' = Exc(type, at)

\* Path(output).write_bytes(content.data), for the output file name in the
\* directory dists/stable
WriteSigned(name, signed) ==
    /\ release' = IF name = "Release"
                  THEN [release EXCEPT ![SignRepoSuite] = File(signed)]
                  ELSE release
    /\ release_gpg' = IF name = "Release.gpg"
                      THEN [release_gpg EXCEPT ![SignRepoSuite] = File(signed)]
                      ELSE release_gpg
    /\ inrelease' = IF name = "InRelease"
                    THEN [inrelease EXCEPT ![SignRepoSuite] = File(signed)]
                    ELSE inrelease
    /\ gen' = [gen EXCEPT ![<<SignRepoSuite, name>>] = run]

\* gpg.import_priv_key(priv_file)
ImportPrivKey ==
    /\ pc = "import"
    /\ keyrings' = [keyrings EXCEPT ![gpg_home] = ImportedKey(args.key)]
    /\ IF ImportExitsZero(args.key)
       THEN /\ pc' = SignRepoNext("import")
            /\ chain' = Append(chain, "import")
            /\ exc' = exc
       ELSE /\ Abort("CalledProcessError", "import")
            /\ chain' = chain
    /\ UNCHANGED <<args, idx, data, run, env, pool, supplied, previous, apart, fsIndex, fsTriple, pub_gpg,
                   gpg_home, unfinalized, scanned>>

\* gpg.sign_file(release, release.with_suffix(".gpg"), detach=True, clearsign=False)
DetachSign ==
    /\ pc = "detach"
    /\ \/ /\ ~Exists(release[SignRepoSuite])
          /\ Abort("FileNotFoundError", "detach")
          /\ UNCHANGED <<fsTriple, chain>>
       \/ /\ Exists(release[SignRepoSuite])
          /\ Abort("OSError", "detach")
          /\ UNCHANGED <<fsTriple, chain>>
       \/ /\ Exists(release[SignRepoSuite])
          /\ WriteSigned(SignOutput(TRUE),
                         SignData(Content(release[SignRepoSuite]), FALSE, TRUE,
                                  keyrings[gpg_home]))
          /\ chain' = Append(chain, "detach")
          /\ pc' = SignRepoNext("detach")
          /\ exc' = exc
    /\ UNCHANGED <<args, idx, data, run, env, pool, supplied, previous, apart, fsIndex,
                   pub_gpg, keyrings, gpg_home, unfinalized, scanned>>

\* gpg.sign_file(release, release.parent / "InRelease", detach=False, clearsign=True)
ClearSign ==
    /\ pc = "clearsign"
    /\ \/ /\ ~Exists(release[SignRepoSuite])
          /\ Abort("FileNotFoundError", "clearsign")
          /\ UNCHANGED <<fsTriple, chain>>
       \/ /\ Exists(release[SignRepoSuite])
          /\ Abort("OSError", "clearsign")
          /\ UNCHANGED <<fsTriple, chain>>
       \/ /\ Exists(release[SignRepoSuite])
          /\ WriteSigned(SignOutput(FALSE),
                         SignData(Content(release[SignRepoSuite]), TRUE, FALSE,
                                  keyrings[gpg_home]))
          /\ chain' = Append(chain, "clearsign")
          /\ pc' = SignRepoNext("clearsign")
          /\ exc' = exc
    /\ UNCHANGED <<args, idx, data, run, env, pool, supplied, previous, apart, fsIndex,
                   pub_gpg, keyrings, gpg_home, unfinalized, scanned>>

\* gpg.export_key(pub_file, secret=False, armor=False)
ExportKey ==
    /\ pc = "export"
    /\ \/ /\ Abort("CalledProcessError", "export")
          /\ UNCHANGED <<pub_gpg, gen, chain>>
       \/ /\ pub_gpg' = File(ExportData(keyrings[gpg_home]))
          /\ gen' = [gen EXCEPT ![PubKey] = run]
          /\ chain' = Append(chain, "export")
          /\ pc' = SignRepoNext("export")
          /\ exc' = exc
    /\ UNCHANGED <<args, idx, data, run, env, pool, supplied, previous, apart, fsIndex, release, release_gpg,
                   inrelease, keyrings, gpg_home, unfinalized, scanned>>

\* TempGPG.__exit__: self._tmp.cleanup(); then sign_repo and build_repo return
\* or the exception of the with-body leaves them.
ExitTempGPG ==
    /\ pc = "exit"
    /\ keyrings' = Cleanup(keyrings, gpg_home, tmpdir_debug)
    /\ pc' = "idle"
    /\ UNCHANGED <<args, idx, data, exc, run, env, pool, supplied, previous, apart, fsIndex, fsTriple,
                   pub_gpg, gpg_home, unfinalized, chain, scanned>>

\* The finalizer of a TemporaryDirectory that was never cleaned up calls the
\* classmethod TemporaryDirectory._cleanup, which reads TMPDIR_DEBUG itself.
\* The override takes (name, warn_message, ignore_errors): an interpreter
\* that also passes delete= makes the call fail and the directory stays.
\* It runs when the TemporaryDirectory is freed, between calls or while a
\* later call is at any of its statements.
Finalizer(home) ==
    /\ home \in unfinalized
    /\ unfinalized' = unfinalized \ {home}
    /\ \/ keyrings' = Cleanup(keyrings, home, tmpdir_debug)
       \/ keyrings' = keyrings
    /\ UNCHANGED <<pc, args, idx, data, exc, run, env, pool, supplied, previous, apart, fsIndex, fsTriple,
                   pub_gpg, gpg_home, chain, scanned>>

Next ==
    \/ Tick
    \/ \E call \in Calls : BuildRepo(call)
    \/ LinkPkg
    \/ LinkDone
    \/ UnlinkRelease
    \/ UnlinkInRelease
    \/ UnlinkReleaseGpg
    \/ ScanArch
    \/ WriteRelease
    \/ EnterTempGPG
    \/ ImportPrivKey
    \/ DetachSign
    \/ ClearSign
    \/ ExportKey
    \/ ExitTempGPG
    \/ \E home \in 1..MaxRuns : Finalizer(home)

Spec == Init /\ [][Next]_vars

(***************************************************************************)
(* symlinker on its own: links are made, removed, and the tree is moved.   *)
(***************************************************************************)
buildVars == <<pc, args, idx, data, exc, run, env, pool, supplied, fsIndex,
               fsTriple, pub_gpg, fsGpg, scanned, previous>>

\* The files and directories there are when the tree is at place: the
\* source files, and the directories above them and above the link paths.
FilesAt(place) == {Located(f, place) : f \in LinkSources}
DirsAt(place) ==
    UNION {{SubSeq(Located(f, place), 1, k) : k \in 1..(Len(f) - 1 + Len(place) - 2)}
           : f \in {g \in LinkSources \cup LinkTargets : InTree(g)}}
    \cup UNION {{SubSeq(f, 1, k) : k \in 1..(Len(f) - 1)}
                : f \in {g \in LinkSources : ~InTree(g)}}

\* Path(target).resolve(): a link at the path is followed to where its
\* text leads from the directory the link is in now.
ResolvedTarget(entries, target, place) ==
    IF Exists(entries[target])
    THEN Walk(Parent(Located(target, place)), Content(entries[target]).text)
    ELSE Located(target, place)

\* symlinker(src, target), called with the paths where they are now.  The
\* link keeps, beside its text, the source it was made for and where the
\* tree was then (history).
Symlinker(src, target) ==
    /\ src # target
    /\ LET s == Located(src, srv)
           t == ResolvedTarget(links, target, srv)
           common_parent == FindCommonParent(s, t)
           rel_src == RelativeTo(s, common_parent)
           rel_target == RelativeTo(t, common_parent)
           rel_symlink == RelSymlink(rel_src, rel_target)
           made == File([text |-> rel_symlink, src |-> src, srv |-> srv])
       IN  IF Exists(links[target])
           THEN \* target.symlink_to at the place the old link leads to
                IF t \in FilesAt(srv)
                THEN /\ link_exc' = "FileExistsError"
                     /\ UNCHANGED links
                ELSE IF Parent(t) \in DirsAt(srv)
                THEN /\ links' = (t :> made) @@ links
                     /\ link_exc' = "none"
                ELSE /\ link_exc' = "FileNotFoundError"
                     /\ UNCHANGED links
           ELSE /\ links' = [links EXCEPT ![target] = made]
                /\ link_exc' = "none"
    /\ UNCHANGED <<srv, buildVars, restVars>>

\* target.unlink(missing_ok=True)
Unlink(target) ==
    /\ Exists(links[target])
    /\ links' = [links EXCEPT ![target] = NoFile]
    /\ link_exc' = "none"
    /\ UNCHANGED <<srv, buildVars, restVars>>

\* The environment: the tree is moved as a whole.
MoveTree(place) ==
    /\ place # srv
    /\ srv' = place
    /\ UNCHANGED <<links, link_exc, buildVars, restVars>>

SymlinkNext ==
    \/ \E src \in LinkSources, target \in LinkTargets : Symlinker(src, target)
    \/ \E target \in LinkTargets : Unlink(target)
    \/ \E place \in Locations : MoveTree(place)

SymlinkSpec == Init /\ [][SymlinkNext]_vars

(***************************************************************************)
(* TempGPG on its own: signing operations that run side by side and one    *)
(* after the other, with the same directory as dir.                        *)
(***************************************************************************)
\* A mkdir that takes a name whether or not a directory has it.
UsableAlways(dirs, name) == TRUE

\* tempfile.mkdtemp: os.mkdir(file, 0o700) of a drawn name raises
\* FileExistsError, and another name is drawn, when the name is taken.
Usable(dirs, name) == ~Exists(dirs[name])

\* TempGPG.__enter__: TemporaryDirectory(prefix="tmp_TempGPG_", dir=self.dir)
\* makes the directory; pgp_tmp.mkdir makes the keyring directory in it,
\* which holds no key.  The directory records the operation that made it
\* and the operations whose key was imported into it (history).
RingEnter(p, name) ==
    /\ ring_ops[p].at = "out"
    /\ Usable(ring_dirs, name)
    /\ ring_dirs' = [ring_dirs EXCEPT ![name] = File([keys |-> {}, maker |-> p])]
    /\ ring_ops' = [ring_ops EXCEPT ![p] = [at |-> "body", home |-> name]]
    /\ UNCHANGED <<buildVars, fsLinks, gz_ret, cwdVars, tapVars, cacheVars>>

\* gpg.import_priv_key(priv_file), with GNUPGHOME = self.homedir
RingImport(p) ==
    /\ ring_ops[p].at = "body"
    /\ ring_dirs' = [ring_dirs EXCEPT ![ring_ops[p].home] =
                         File([Content(@) EXCEPT !.keys = @ \cup {p}])]
    /\ ring_ops' = [ring_ops EXCEPT ![p].at = "imported"]
    /\ UNCHANGED <<buildVars, fsLinks, gz_ret, cwdVars, tapVars, cacheVars>>

\* create_priv_key: gpg.gen_key(input_data) puts a new secret key of the
\* operation into the keyring directory
RingGenKey(p) ==
    /\ ring_ops[p].at = "body"
    /\ ring_dirs' = [ring_dirs EXCEPT ![ring_ops[p].home] =
                         File([Content(@) EXCEPT !.keys = @ \cup {p}])]
    /\ ring_ops' = [ring_ops EXCEPT ![p].at = "generated"]
    /\ UNCHANGED <<buildVars, fsLinks, gz_ret, cwdVars, tapVars, cacheVars>>

\* TempGPG.__exit__, after the with-body ended or raised: self._tmp.cleanup()
RingExit(p) ==
    /\ ring_ops[p].at \in {"body", "imported", "generated"}
    /\ ring_dirs' = IF tmpdir_debug THEN ring_dirs
                    ELSE [ring_dirs EXCEPT ![ring_ops[p].home] = NoFile]
    /\ ring_ops' = [ring_ops EXCEPT ![p].at = "done"]
    /\ UNCHANGED <<buildVars, fsLinks, gz_ret, cwdVars, tapVars, cacheVars>>

KeyringNext ==
    \/ \E p \in Ops, name \in DirNames : RingEnter(p, name)
    \/ \E p \in Ops : RingImport(p)
    \/ \E p \in Ops : RingGenKey(p)
    \/ \E p \in Ops : RingExit(p)

KeyringSpec == Init /\ [][KeyringNext]_vars

(***************************************************************************)
(* create_packages_gz on its own, with and without skip_update.            *)
(***************************************************************************)
\* The calls of the model: the index of an architecture of suite stable and
\* an index text.
GzArches == {"amd64", "arm64"}
GzTexts == { <<97, 10>>, <<233, 10>> }

\* A function that never takes the skip_update branch.
SkipsUpdateNever(skip_update) == FALSE

\* if skip_update:
SkipsUpdate(skip_update) == skip_update

\* create_packages_gz(packages_file, packages, skip_update); gz_ret records
\* the skip_update argument and the pair returned or the exception raised.
CreatePackagesGz(arch, text, skip_update) ==
    /\ pc = "idle"
    /\ LET packages_file == PackagesFile("stable", arch)
           packages_gz_file == PackagesGzFile(packages_file)
           persisted == packages_gz["stable"][arch]
           gz == GzipCompress(Utf8(text), now)
       IN  IF SkipsUpdate(skip_update)
           THEN \* return packages_gz_file, packages_gz_file.read_bytes()
                /\ gz_ret' =
                      IF Exists(persisted)
                      THEN [skip_update |-> skip_update,
                            value |-> <<packages_gz_file, Content(persisted)>>,
                            exc |-> "none"]
                      ELSE [skip_update |-> skip_update, value |-> << >>,
                            exc |-> "FileNotFoundError"]
                /\ UNCHANGED packages_gz
           ELSE /\ packages_gz' = [packages_gz EXCEPT !["stable"][arch] = File(gz)]
                /\ gz_ret' = [skip_update |-> skip_update,
                              value |-> <<packages_gz_file, gz>>, exc |-> "none"]
    /\ UNCHANGED <<pc, args, idx, data, exc, run, env, pool, supplied, packages,
                   fsTriple, pub_gpg, fsGpg, scanned, previous, fsLinks, ringVars,
                   cwdVars, tapVars, cacheVars>>

GzNext ==
    \/ Tick
    \/ \E arch \in GzArches, text \in GzTexts, skip_update \in BOOLEAN :
          CreatePackagesGz(arch, text, skip_update)

GzSpec == Init /\ [][GzNext]_vars

(***************************************************************************)
(* change_cwd: contexts entered one inside the other; frames holds the     *)
(* directory each open context saved at its entry, innermost last.         *)
(***************************************************************************)
\* How a context is left: its body returns, the scanner raises the
\* ValueError of an architecture without packages, or another error is
\* raised in it or passes through it.
Outcomes == {"return", "ValueError", "ScanError", "FileNotFoundError"}

\* A directory that does not exist: os.chdir to it raises.
MissingDir == <<"/", "srv", "gone">>

\* A context manager without the finally: the directory is restored only
\* when the body returns.
RestoredOnReturn(outcome, saved, current) ==
    IF outcome = "return" THEN saved ELSE current

\* finally: os.chdir(cwd)
Restored(outcome, saved, current) == saved

\* cwd = Path.cwd(); try: os.chdir(path); yield
\* A failing os.chdir leaves through the finally with the exception.  With
\* no context open cwd_exc is the exception the last use ended with, and a
\* new use starts without it.
CwdEnter(path) ==
    /\ (cwd_exc = "none" \/ frames = << >>)
    /\ Len(frames) < MaxDepth
    /\ IF path \in Dirs
       THEN /\ frames' = Append(frames, cwd)
            /\ cwd' = path
            /\ cwd_exc' = "none"
       ELSE /\ cwd' = Restored("FileNotFoundError", cwd, cwd)
            /\ cwd_exc' = "FileNotFoundError"
            /\ UNCHANGED frames
    /\ UNCHANGED <<buildVars, fsLinks, ringVars, gz_ret, tapVars, cacheVars>>

\* The body of the innermost context changes the directory itself.
CwdBody(dir) ==
    /\ cwd_exc = "none"
    /\ frames # << >>
    /\ cwd' = dir
    /\ UNCHANGED <<frames, cwd_exc, buildVars, fsLinks, ringVars, gz_ret,
                   tapVars, cacheVars>>

\* The innermost context is left: its body returned or raised, or an
\* exception raised further inside passes through it.
CwdExit(outcome) ==
    /\ frames # << >>
    /\ cwd_exc \in {"none", outcome}
    /\ cwd' = Restored(outcome, frames[Len(frames)], cwd)
    /\ frames' = SubSeq(frames, 1, Len(frames) - 1)
    /\ cwd_exc' = IF outcome = "return" THEN "none" ELSE outcome
    /\ UNCHANGED <<buildVars, fsLinks, ringVars, gz_ret, tapVars, cacheVars>>

\* except ValueError: the ValueError is caught; any other exception goes on.
CwdCatch ==
    /\ cwd_exc = "ValueError"
    /\ cwd_exc' = "none"
    /\ UNCHANGED <<cwd, frames, buildVars, fsLinks, ringVars, gz_ret, tapVars,
                   cacheVars>>

CwdNext ==
    \/ \E path \in Dirs \cup {MissingDir} : CwdEnter(path)
    \/ \E dir \in Dirs : CwdBody(dir)
    \/ \E outcome \in Outcomes : CwdExit(outcome)
    \/ CwdCatch

CwdSpec == Init /\ [][CwdNext]_vars

(***************************************************************************)
(* build_tap: the tap holds, per directory and file name, the text of the  *)
(* file, which for a Ruby file is the version it declares.                 *)
(***************************************************************************)
\* Version(version).release
Release(version) ==
    CASE version = "1.0" -> <<1, 0>>
      [] version = "2.0" -> <<2, 0>>
      [] version = "10000.0" -> <<10000, 0>>
      [] version = "9999.9.9" -> <<9999, 9, 9>>
      [] version = "0.0.0" -> <<0, 0, 0>>

\* _read_version on the text of a file: << >> stands for the ValueError of
\* a text without a version line.
ReadVersion(text) ==
    IF text = NoVersion THEN << >>
    ELSE IF text = "latest" THEN Release("9999.9.9")
    ELSE Release(text)

ReleaseAt(version, i) == IF i <= Len(version) THEN version[i] ELSE 0

\* old_version > new_version; releases compare as tuples, a missing
\* component counting as zero.
VersionGreater(old_version, new_version) ==
    \E i \in 1..Len(old_version) :
        /\ ReleaseAt(old_version, i) > ReleaseAt(new_version, i)
        /\ \A j \in 1..(i - 1) :
              ReleaseAt(old_version, j) = ReleaseAt(new_version, j)

\* file.suffix != ".rb"
IsRuby(name) == name \in TapNames

\* for file in pkgs: ..., from the k-th file on; dest is the directory of
\* the clone and existing_files the names found in it before the loop.
RECURSIVE CopyPkgs(_, _, _, _)
CopyPkgs(dest, existing_files, pkgs, k) ==
    IF k > Len(pkgs) THEN [files |-> dest, exc |-> "none"]
    ELSE LET file == pkgs[k]
             new_version == ReadVersion(file.text)
             old_version ==
                 IF file.name \in existing_files
                 THEN ReadVersion(Content(dest[file.name]))
                 ELSE Release("0.0.0")
         IN  IF ~IsRuby(file.name) \/ new_version = << >> \/ old_version = << >>
             THEN [files |-> dest, exc |-> "ValueError"]
             ELSE IF VersionGreater(old_version, new_version)
             THEN CopyPkgs(dest, existing_files, pkgs, k + 1)
             ELSE CopyPkgs([dest EXCEPT ![file.name] = File(file.text)],
                           existing_files, pkgs, k + 1)

\* One pass of the loop over (subdir, pkgs).
TapSubdir(dest, subdir, pkgs) ==
    LET existing_files == {n \in TapNames : Exists(dest[n])}
        marked == IF pkgs = << >> /\ existing_files = {}
                  THEN [dest EXCEPT ![".empty"] =
                            File("No " \o subdir \o " files found.")]
                  ELSE dest
    IN  CopyPkgs(marked, existing_files, pkgs, 1)

\* build_tap(repo, casks, formulae): the clone is changed and pushed at the
\* end; an exception leaves before the push.
BuildTap(casks, formulae) ==
    /\ LET c == TapSubdir(tap["Casks"], "Casks", casks)
           f == TapSubdir(tap["Formula"], "Formula", formulae)
       IN  IF c.exc # "none"
           THEN tap_exc' = c.exc /\ UNCHANGED tap
           ELSE IF f.exc # "none"
           THEN tap_exc' = f.exc /\ UNCHANGED tap
           ELSE /\ tap' = [tap EXCEPT !["Casks"] = c.files, !["Formula"] = f.files]
                /\ tap_exc' = "none"
    /\ UNCHANGED <<buildVars, fsLinks, ringVars, gz_ret, cwdVars, cacheVars>>

TapNext == \E casks \in TapCasks, formulae \in TapFormulae : BuildTap(casks, formulae)

TapSpec == Init /\ [][TapNext]_vars

(***************************************************************************)
(* CacheSession.get.  sent lists the requests Session.get was asked for,   *)
(* in order; a response is named by the number of its request; returned    *)
(* records the arguments and the result of the last call.                  *)
(***************************************************************************)
\* if stream:
Truthy(stream) == stream = "True"

\* A session that sends a request for every call.
CacheMissAlways(entries, url) == TRUE

\* if url not in self.cache:
CacheMiss(entries, url) == ~Exists(entries[url])

\* super().get(url, ...): the request is sent and either a response comes
\* back (ok) or the call raises.
Request(url, streamed, ok) == [url |-> url, stream |-> streamed, ok |-> ok]

\* CacheSession.get(url, stream, **kwargs)
Get(url, stream, ok) ==
    LET response == Len(sent) + 1
        result(value) == [url |-> url, stream |-> stream, value |-> value,
                          exc |-> IF value = 0 THEN "ConnectionError" ELSE "none"]
    IN  /\ IF Truthy(stream)
           THEN \* return super().get(url, stream=stream, **kwargs)
                /\ Len(sent) < MaxRequests
                /\ sent' = Append(sent, Request(url, TRUE, ok))
                /\ returned' = result(IF ok THEN response ELSE 0)
                /\ UNCHANGED cache
           ELSE IF CacheMiss(cache, url)
           THEN \* self.cache[url] = super().get(url, **kwargs)
                /\ Len(sent) < MaxRequests
                /\ sent' = Append(sent, Request(url, FALSE, ok))
                /\ cache' = IF ok THEN [cache EXCEPT ![url] = File(response)]
                            ELSE cache
                /\ returned' = result(IF ok THEN response ELSE 0)
           ELSE \* return self.cache[url]
                /\ ok
                /\ returned' = result(Content(cache[url]))
                /\ UNCHANGED <<cache, sent>>
        /\ UNCHANGED <<buildVars, fsLinks, ringVars, gz_ret, cwdVars, tapVars>>

CacheNext == \E url \in Urls, stream \in Streams, ok \in BOOLEAN : Get(url, stream, ok)

CacheSpec == Init /\ [][CacheNext]_vars

(***************************************************************************)
(* Properties                                                              *)
(***************************************************************************)
\* The last build_repo call returned normally.
Completed == pc = "idle" /\ run > 0 /\ exc = NoExc

\* The last build_repo call ended with an exception.
Failed == pc = "idle" /\ run > 0 /\ exc # NoExc

\* The signature file is a signature made over the manifest file.
SignatureOf(sig, manifest) ==
    Exists(sig) /\ Exists(manifest) /\ Content(sig).over = manifest

\* File f of suite directory s was written by the current call.
WrittenNow(s, f) == run > 0 /\ gen[<<s, f>>] = run

SigningSteps == {"enter", "import", "detach", "clearsign", "export"}

RangeOf(seq) == {seq[k] : k \in 1..Len(seq)}

\* C1: for every suite name passed to build_repo, when build_repo completes
\* (with a key file that holds a secret key), Release.gpg and InRelease are
\* in dists/<suite>/ and both were made from the dists/<suite>/Release that
\* this same build wrote.
C1_SignaturesInSuiteDirectory ==
    (Completed /\ args.key = "secret") =>
        /\ WrittenNow(args.suite, "Release")
        /\ WrittenNow(args.suite, "Release.gpg")
        /\ WrittenNow(args.suite, "InRelease")
        /\ SignatureOf(release_gpg[args.suite], release[args.suite])
        /\ SignatureOf(inrelease[args.suite], release[args.suite])

\* C2: after any build_repo call, failed or not, no suite directory holds a
\* signature file without its matching Release manifest, nor a Release
\* manifest without its matching signatures.
C2_TripleIsAtomic ==
    pc = "idle" =>
        \A s \in Suites :
            /\ Exists(release_gpg[s]) => SignatureOf(release_gpg[s], release[s])
            /\ Exists(inrelease[s]) => SignatureOf(inrelease[s], release[s])
            /\ Exists(release[s]) =>
                  /\ SignatureOf(release_gpg[s], release[s])
                  /\ SignatureOf(inrelease[s], release[s])

\* C3: when no requested architecture produced packages (data is empty after
\* the loop over the architectures), create_repo still writes a manifest,
\* with an empty Architectures value and hash blocks without entries.
C3_EmptyManifestEmitted ==
    (pc = "idle" /\ run > 0 /\ data = << >> /\ exc.at \notin {"link", "scan"}) =>
        /\ WrittenNow(args.suite, "Release")
        /\ Exists(release[args.suite])
        /\ ManifestArchitectures(Content(release[args.suite])) = << >>
        /\ Content(release[args.suite]).hashes =
              << <<"MD5Sum", ":">>, <<"SHA1", ":">>, <<"SHA256", ":">> >>

\* The entry lines of hash block h of a manifest with n architectures, and
\* the paths they list.
Block(m, h) ==
    LET n == Len(ManifestArchitectures(m))
    IN  SubSeq(m.hashes, (h - 1) * (1 + 2 * n) + 2, h * (1 + 2 * n))
BlockPaths(m, h) == {Block(m, h)[k][6] : k \in 1..Len(Block(m, h))}

\* C4: in the manifest create_repo wrote in this build, an architecture is in
\* the Architectures field and in the hash blocks if and only if the scanner
\* produced an index for it in this build, that is if and only if it was
\* requested and the pool holds a package of it: an architecture without
\* packages contributes no line, and an architecture with packages
\* contributes its Packages and its Packages.gz entry to each of the three
\* hash blocks.
C4_ArchitecturesIffScanned ==
    (WrittenNow(args.suite, "Release") /\ Exists(release[args.suite])) =>
        LET m == Content(release[args.suite])
            archs == ManifestArchitectures(m)
        IN  /\ RangeOf(archs) = scanned
            /\ Cardinality(RangeOf(archs)) = Len(archs)
            /\ \A a \in ARCH :
                  a \in RangeOf(archs) <=>
                      (a \in RangeOf(args.arches) /\ ScanPackages(pool, a) # << >>)
            /\ Len(m.hashes) = 3 * (1 + 2 * Len(archs))
            /\ \A h \in 1..3 :
                  /\ \A k \in 1..Len(Block(m, h)) : Len(Block(m, h)[k]) = 6
                  /\ BlockPaths(m, h) =
                        UNION { { <<"main", BinaryDir(a), "Packages">>,
                                  <<"main", BinaryDir(a), "Packages.gz">> } :
                                a \in RangeOf(archs) }

\* A manifest of this build that lists amd64 and leaves out the requested
\* architectures all and arm64, which have no package in the pool.
C4_Witness ==
    /\ pc = "enter"
    /\ args.arches = DefaultArches
    /\ WrittenNow(args.suite, "Release")
    /\ ManifestArchitectures(Content(release[args.suite])) = <<"amd64">>

\* C5: if the imported key file yields zero usable secret keys, the signing
\* operation fails at the import, before any signature file is written, and
\* the keyring directory no longer exists afterwards (TMPDIR_DEBUG unset).
C5_NoSecretKeyFailsImport ==
    (pc = "idle" /\ run > 0 /\ gpg_home = run /\ args.key # "secret"
       /\ ~tmpdir_debug) =>
        /\ exc # NoExc
        /\ exc.at = "import"
        /\ ~WrittenNow(SignRepoSuite, "Release.gpg")
        /\ ~WrittenNow(SignRepoSuite, "InRelease")
        /\ keyrings[gpg_home] = "absent"

\* C6 as stated, for a process in which TMPDIR_DEBUG is unset: when the
\* signing operation of a call has ended, on whatever exit path (after
\* success and after a failure of keyring setup, key import, detached
\* signing, clear-signing or key export), the keyring directory made for it
\* is destroyed.
C6_DestroyedOnEveryExitPath ==
    (pc = "idle" /\ run > 0 /\ ~tmpdir_debug) => keyrings[run] = "absent"

\* What holds of the operations that entered their with-body: when such an
\* operation has ended, after success or after a failure of key import,
\* detached signing, clear-signing or key export, its keyring directory is
\* destroyed if TMPDIR_DEBUG is unset and kept if it is set; until then it
\* exists.
C6_DestroyedUnlessTmpdirDebug ==
    /\ (pc = "idle" /\ run > 0 /\ gpg_home = run) =>
          (keyrings[gpg_home] = "absent" <=> ~tmpdir_debug)
    /\ (pc \in {"import", "detach", "clearsign", "export", "exit"}) =>
          (gpg_home = run /\ keyrings[gpg_home] # "absent")

\* The operation failed at clear-signing and its keyring is gone.
C6_Witness ==
    /\ Failed
    /\ exc.at = "clearsign"
    /\ gpg_home = run
    /\ ~tmpdir_debug
    /\ keyrings[gpg_home] = "absent"

\* C7: if a step of the signing chain fails, then when sign_repo has returned
\* control no signature file written by this attempt remains on disk.
C7_NoPartialSignatures ==
    (Failed /\ exc.at \in SigningSteps) =>
        \A s \in Suites :
            /\ ~(WrittenNow(s, "Release.gpg") /\ Exists(release_gpg[s]))
            /\ ~(WrittenNow(s, "InRelease") /\ Exists(inrelease[s]))

ChainOrder == <<"import", "detach", "clearsign", "export">>

\* C8: the steps of the signing chain run in the order key import, detached
\* signature, clear-signed document, public-key export: the steps completed
\* are a prefix of that order, Release.gpg is written by this call only
\* after the import, InRelease only after Release.gpg, the public key only
\* after InRelease, and after a failure of a step no later step has run or
\* written its output.
C8_ChainStrictlySequential ==
    /\ Len(chain) <= Len(ChainOrder)
    /\ chain = SubSeq(ChainOrder, 1, Len(chain))
    /\ \A s \in Suites :
          /\ WrittenNow(s, "Release.gpg") =>
                (s = SignRepoSuite /\ Len(chain) >= 2)
          /\ WrittenNow(s, "InRelease") =>
                (s = SignRepoSuite /\ Len(chain) >= 3
                   /\ WrittenNow(s, "Release.gpg"))
    /\ (run > 0 /\ gen[PubKey] = run) =>
          (chain = ChainOrder /\ WrittenNow(SignRepoSuite, "InRelease"))
    /\ (exc.at = "import") => chain = << >>
    /\ (exc.at = "detach") => chain = SubSeq(ChainOrder, 1, 1)
    /\ (exc.at = "clearsign") => chain = SubSeq(ChainOrder, 1, 2)
    /\ (exc.at = "export") => chain = SubSeq(ChainOrder, 1, 3)
    /\ (exc.at \in SigningSteps) => pc \in {"exit", "idle"}

\* Clear-signing failed: the import and the detached signature are done, and
\* neither InRelease nor the public key was written by this call.
C8_Witness ==
    /\ Failed
    /\ exc.at = "clearsign"
    /\ WrittenNow(SignRepoSuite, "Release.gpg")
    /\ ~WrittenNow(SignRepoSuite, "InRelease")
    /\ gen[PubKey] # run

\* C9: the stale Release, InRelease and Release.gpg of a previous run are
\* deleted before a build writes new ones at those paths: the files of the
\* triple present in one suite directory were all written by the same run.
C9_NoMixOfOldAndNew ==
    \A s \in Suites : \A f, g \in TripleFiles :
        (gen[<<s, f>>] # 0 /\ gen[<<s, g>>] # 0) => gen[<<s, f>>] = gen[<<s, g>>]

\* C10: index generation plus compression over unchanged pool contents gives
\* byte-identical Packages and byte-identical Packages.gz: a scan that
\* writes the Packages content that was already there leaves Packages.gz
\* as it was.
C10_CompressionReproducible ==
    [][ \A a \in ARCH :
          ( /\ pc = "scan"
            /\ a \in scanned' \ scanned
            /\ Exists(packages[args.suite][a])
            /\ Exists(packages_gz[args.suite][a])
            /\ packages'[args.suite][a] = packages[args.suite][a] )
          => packages_gz'[args.suite][a] = packages_gz[args.suite][a] ]_vars

\* C11: for every (plain index, compressed index) pair that create_repo put
\* into data, decompressing the compressed bytes gives exactly the UTF-8
\* bytes of the plain index text, the compressed path is the sibling
\* Packages.gz of the plain path, and the compressed bytes in data are the
\* bytes the file at that path holds.
C11_CompressedPairConsistent ==
    \A k \in 1..Len(data) :
        LET e == data[k] IN
        /\ GzipDecompress(e.packages_gz[2]) = Utf8(e.packages[2])
        /\ e.packages[1] = PackagesFile(args.suite, e.arch)
        /\ e.packages_gz[1] = PackagesGzFile(e.packages[1])
        /\ packages_gz[args.suite][e.arch] = File(e.packages_gz[2])

\* The pair of arm64 is in data: its index text has a non-ASCII character,
\* so the compressed payload is longer than the text.
C11_Witness ==
    /\ pc = "scan"
    /\ \E k \in 1..Len(data) :
          /\ data[k].arch = "arm64"
          /\ Len(GzipDecompress(data[k].packages_gz[2])) > Len(data[k].packages[2])
          /\ Exists(packages_gz[args.suite]["arm64"])

\* create_repo has just written the manifest of this build: every manifest
\* on disk was written by such a step and is not modified afterwards.
ManifestWritten == pc = "enter"
Manifest == Content(release[args.suite])

\* The names of the scalar lines and of the hash-block headers of a manifest.
ScalarFields == <<"Origin", "Label", "Suite", "Codename", "Version",
                  "Architectures", "Components", "Description", "Date">>
BlockHeaders == <<"MD5Sum", "SHA1", "SHA256">>

\* The paths listed by a sequence of entry lines.
PathsOf(lines) == [k \in 1..Len(lines) |-> lines[k][6]]

\* C12: every manifest create_repo writes has the nine scalar lines Origin, Label,
\* Suite, Codename, Version, Architectures, Components, Description, Date in
\* that order, then the hash blocks MD5Sum, SHA1, SHA256 in that order and
\* nothing else; each block has 2 x (number of included architectures)
\* entries: for the j-th architecture of the Architectures field, entry
\* 2j-1 is its Packages and entry 2j its Packages.gz; the three blocks list
\* the same paths in the same order.
C12_ManifestLayout ==
    ManifestWritten =>
            LET m == Manifest
                archs == ManifestArchitectures(m)
                n == Len(archs)
            IN  /\ DOMAIN m = {"scalars", "hashes"}
                /\ [k \in 1..Len(m.scalars) |-> m.scalars[k][1]] = ScalarFields
                /\ Len(m.hashes) = 3 * (1 + 2 * n)
                /\ \A h \in 1..3 :
                      /\ m.hashes[(h - 1) * (1 + 2 * n) + 1] = <<BlockHeaders[h], ":">>
                      /\ Len(Block(m, h)) = 2 * n
                      /\ \A j \in 1..n :
                            /\ Block(m, h)[2 * j - 1][6] =
                                  <<"main", BinaryDir(archs[j]), "Packages">>
                            /\ Block(m, h)[2 * j][6] =
                                  <<"main", BinaryDir(archs[j]), "Packages.gz">>
                      /\ PathsOf(Block(m, h)) = PathsOf(Block(m, 1))

\* A manifest that lists two architectures, in the order they were requested
\* (arm64 before amd64).
C12_Witness ==
    /\ ManifestWritten
    /\ ManifestArchitectures(Manifest) = <<"arm64", "amd64">>
    /\ Len(Block(Manifest, 3)) = 4

\* Whether an entry line lists a plain index or a compressed index.
IsPlainEntry(line) == line[6][Len(line[6])] = "Packages"
IsCompressedEntry(line) == line[6][Len(line[6])] = "Packages.gz"

\* C13 as stated: within each hash block of a manifest just written, the entries of all
\* plain indices come before any compressed-index entry.
C13_AllPlainBeforeCompressed ==
    ManifestWritten =>
            \A h \in 1..3 :
                LET b == Block(Manifest, h) IN
                \A i, j \in 1..Len(b) :
                    (IsCompressedEntry(b[i]) /\ IsPlainEntry(b[j])) => j < i

\* C13 as amended: within each hash block of a manifest just written the entries are
\* grouped by architecture, in the order of the Architectures field: every
\* plain-index entry is immediately followed by the compressed-index entry
\* of the same directory, every compressed-index entry immediately follows
\* its plain-index entry, and the plain-index entries taken alone are in
\* architecture-list order.
C13_PlainThenCompressedPerArchitecture ==
    ManifestWritten =>
            LET m == Manifest
                archs == ManifestArchitectures(m)
            IN  \A h \in 1..3 :
                  LET b == Block(m, h) IN
                  /\ \A i \in 1..Len(b) :
                        /\ IsPlainEntry(b[i]) =>
                              /\ i < Len(b)
                              /\ b[i + 1][6] = PackagesGzFile(b[i][6])
                        /\ IsCompressedEntry(b[i]) =>
                              /\ i > 1
                              /\ b[i][6] = PackagesGzFile(b[i - 1][6])
                        /\ IsPlainEntry(b[i]) \/ IsCompressedEntry(b[i])
                  /\ \A i, j \in 1..Len(b) :
                        (IsPlainEntry(b[i]) /\ IsPlainEntry(b[j]) /\ i < j) =>
                            \E x, y \in 1..Len(archs) :
                                /\ x < y
                                /\ b[i][6][2] = BinaryDir(archs[x])
                                /\ b[j][6][2] = BinaryDir(archs[y])

\* A hash block of two architectures: the compressed index of the first
\* architecture is listed before the plain index of the second.
C13_Witness ==
    /\ ManifestWritten
    /\ LET b == Block(Manifest, 1) IN
         /\ Len(b) = 4
         /\ b[2][6] = <<"main", "binary-amd64", "Packages.gz">>
         /\ b[3][6] = <<"main", "binary-arm64", "Packages">>

\* The index files of a suite directory, as paths from the repository root.
IndexPaths(s) ==
    {PackagesFile(s, a) : a \in ARCH}
    \cup {PackagesGzFile(PackagesFile(s, a)) : a \in ARCH}

\* C14: every entry line of every hash block of the manifest just written
\* for suite args.suite is
\* one space, the digest of the block's algorithm, one space, the length as
\* a number, one space, and a path; the path is that of an index file
\* relative to the suite directory dists/<suite>, which also holds the
\* manifest: main/binary-<arch>/Packages or main/binary-<arch>/Packages.gz
\* of an architecture the Architectures field lists.
C14_EntryLineFormat ==
    ManifestWritten =>
            LET m == Manifest
                s == args.suite
                archs == ManifestArchitectures(m)
            IN  \A h \in 1..3 : \A k \in 1..Len(Block(m, h)) :
                  LET line == Block(m, h)[k] IN
                  /\ Len(line) = 6
                  /\ line[1] = " " /\ line[3] = " " /\ line[5] = " "
                  /\ line[2][1] = HeaderHashes[h][2]
                  /\ line[4] \in Nat
                  /\ <<"dists", s>> \o line[6] \in IndexPaths(s)
                  /\ Len(line[6]) = 3
                  /\ line[6][1] = "main"
                  /\ \E j \in 1..Len(archs) : line[6][2] = BinaryDir(archs[j])
                  /\ line[6][3] \in {"Packages", "Packages.gz"}

\* The manifest of suite testing lists main/binary-amd64/Packages.gz.
C14_Witness ==
    /\ ManifestWritten
    /\ args.suite = "testing"
    /\ \E k \in 1..Len(Block(Manifest, 2)) :
          Block(Manifest, 2)[k][6] = <<"main", "binary-amd64", "Packages.gz">>

\* The byte sequence a digest of the model was computed over.
DigestInput(digest) == digest[2]

\* C15: on every entry line of every hash block of the manifest just written
\* the length is the length of the very byte sequence the digest was
\* computed over, and the three blocks give the same length to the same
\* path; that byte sequence is the UTF-8 encoding of the index text held in data
\* for a plain index and the compressed bytes held in data for a compressed
\* index.
C15_LengthAndDigestOverSameBytes ==
    ManifestWritten =>
        LET m == Manifest
            suite_dir == <<"dists", args.suite>>
        IN  /\ \A h \in 1..3 : \A k \in 1..Len(Block(m, h)) :
                  /\ Block(m, h)[k][4] = Len(DigestInput(Block(m, h)[k][2]))
                  /\ \A g \in 1..3 : \A i \in 1..Len(Block(m, g)) :
                        Block(m, g)[i][6] = Block(m, h)[k][6] =>
                            Block(m, g)[i][4] = Block(m, h)[k][4]
            /\ \A h \in 1..3 : \A j \in 1..Len(data) :
                  LET plain == Block(m, h)[2 * j - 1]
                      compressed == Block(m, h)[2 * j]
                  IN  /\ DigestInput(plain[2]) = Utf8(data[j].packages[2])
                      /\ DigestInput(compressed[2]) = data[j].packages_gz[2]
                      /\ plain[6] = RelativeTo(data[j].packages[1], suite_dir)
                      /\ compressed[6] = RelativeTo(data[j].packages_gz[1], suite_dir)

\* The manifest lists the arm64 index, whose text of two characters encodes
\* to three bytes: the entry gives length 3.
C15_Witness ==
    /\ ManifestWritten
    /\ \E j \in 1..Len(data) :
          /\ data[j].arch = "arm64"
          /\ Len(data[j].packages[2]) = 2
          /\ Block(Manifest, 3)[2 * j - 1][4] = 3

\* The index file at a path dists/<suite>/main/binary-<arch>/<name>.
IndexFileAt(path) ==
    LET arch == CHOOSE a \in ARCH : BinaryDir(a) = path[4]
    IN  IF path[5] = "Packages" THEN packages[path[2]][arch]
        ELSE packages_gz[path[2]][arch]

\* C16: when create_repo has just written the manifest, every artifact the
\* manifest lists is a file on disk, the length on each of its entry lines
\* is the number of bytes of that file, and the digest on its SHA256 line
\* is the SHA-256 of the bytes of that file.
C16_ManifestMatchesFilesOnDisk ==
    ManifestWritten =>
        LET m == Manifest IN
        \A h \in 1..3 : \A k \in 1..Len(Block(m, h)) :
            LET line == Block(m, h)[k]
                file == IndexFileAt(<<"dists", args.suite>> \o line[6])
            IN  /\ Exists(file)
                /\ line[4] = Len(Content(file))
                /\ (h = 3) => line[2] = HashFunc(Content(file), "sha256")

\* The name of a candidate ends in .tar or in .tar.gz.
EndsInArchiveExtension(pkg) ==
    \/ Len(pkg.parts) >= 2 /\ pkg.parts[Len(pkg.parts)] = ".tar"
    \/ /\ Len(pkg.parts) >= 3
       /\ SubSeq(pkg.parts, Len(pkg.parts) - 1, Len(pkg.parts)) = <<".tar", ".gz">>

\* The last n dotted parts of the name follow a non-empty stem.
FollowsStem(pkg, n) ==
    Len(pkg.parts) > n /\ ~(Len(pkg.parts) = n + 1 /\ pkg.parts[1] = "")

\* Some part of the name before its last n dotted parts is neither empty
\* nor a lone dot: the last n parts are extensions once the leading dots of
\* the name are dropped.
FollowsName(pkg, n) ==
    \E i \in 1..(Len(pkg.parts) - n) : pkg.parts[i] \notin {"", "."}

\* The extension of a candidate is .deb.
HasDebExtension(pkg) ==
    pkg.parts[Len(pkg.parts)] = ".deb" /\ FollowsStem(pkg, 1)

\* The pool linker takes its step with the candidate at idx (the clock may
\* tick in between).
LinkerStep ==
    pc = "link" /\ idx <= Len(args.pkgs) /\ <<pc, idx>>' # <<pc, idx>>

\* What one step of the pool linker does with a candidate.
Linked(pkg) ==
    /\ Exists(pool'[pkg.name])
    /\ \A n \in PoolNames \ {pkg.name} : pool'[n] = pool[n]
    /\ pc' = "link" /\ idx' = idx + 1 /\ exc' = NoExc
Skipped(pkg) ==
    /\ pool' = pool
    /\ pc' = "link" /\ idx' = idx + 1 /\ exc' = NoExc
Rejected(pkg) ==
    /\ pool' = pool
    /\ pc' = "idle" /\ exc' = Exc("ValueError", "link")

\* C17 as stated: the pool linker links a candidate whose extension is
\* .deb, skips without error and without a pool entry a candidate whose name
\* ends in .tar or .tar.gz, and fails the build with the invalid-input
\* error (ValueError) for any other candidate.
C17_ArchiveNamesSkipped ==
    [][ LinkerStep =>
          LET pkg == args.pkgs[idx] IN
          IF HasDebExtension(pkg) THEN Linked(pkg)
          ELSE IF EndsInArchiveExtension(pkg) THEN Skipped(pkg)
          ELSE Rejected(pkg) ]_vars

\* C17 as amended: the pool linker resolves the candidate path and tests
\* the name it resolves to: it links a candidate whose extension is .deb; it
\* skips a candidate whose name ends in .tar after a non-empty stem, or in
\* .tar.gz after a name that is more than dots (leading dots start no
\* extension, so a file named .tar or .tar.gz is no archive); it fails the
\* build with ValueError, leaving the pool as it is, for any other
\* candidate.
C17_ArchiveSuffixesSkipped ==
    [][ LinkerStep =>
          LET pkg == ResolvedPkg(pool, args.pkgs[idx])
              ends == pkg.parts[Len(pkg.parts)]
          IN  IF HasDebExtension(pkg) THEN Linked(pkg)
              ELSE IF \/ ends = ".tar" /\ FollowsStem(pkg, 1)
                      \/ ends = ".gz" /\ EndsInArchiveExtension(pkg)
                           /\ FollowsName(pkg, 2)
                   THEN Skipped(pkg)
                   ELSE Rejected(pkg) ]_vars

\* A run linked a.deb and skipped f.tar without error and without an entry.
C17_Witness ==
    /\ pc = "link"
    /\ idx = 3
    /\ args.pkgs = <<PkgA2, TarFile, PkgD, PkgZ>>
    /\ pool["a.deb"] = File(PkgA2)
    /\ pool["f.tar"] = NoFile
    /\ exc = NoExc

\* C18: pool linking replaces per name: linking never fails because an
\* entry of that name exists or is missing (the only error of the linker is
\* the ValueError for an unexpected file), and after any sequence of linking
\* steps every accepted name has its pool entry, which points at the file
\* of that name that was supplied last.
C18_EntryPointsAtLastSupplied ==
    /\ exc.at = "link" => exc.type = "ValueError"
    /\ \A n \in PoolNames :
          Exists(supplied[n]) => pool[n] = supplied[n]

\* The paths that are a prefix of a path.
Prefixes(path) == {SubSeq(path, 1, k) : k \in 0..Len(path)}

\* The longest path that is a prefix of both paths.
LongestCommonPrefix(a, b) ==
    CHOOSE p \in Prefixes(a) \cap Prefixes(b) :
        \A q \in Prefixes(a) \cap Prefixes(b) : Len(q) <= Len(p)

\* C19: every link symlinker made is relative; its text is one ".." for
\* each directory between the longest common prefix of source and link path
\* and the link's directory, followed by the source path relative to that
\* prefix; resolved from the link's directory it gives the source file, as
\* long as the tree is where it was when the link was made, and wherever the
\* tree is moved when source and link both lie in it.
C19_RelativeLinkResolvesToSource ==
    \A target \in LinkTargets :
        Exists(links[target]) =>
            LET l == Content(links[target])
                s == Located(l.src, l.srv)
                t == Located(target, l.srv)
                prefix == LongestCommonPrefix(s, t)
            IN  /\ l.text # << >>
                /\ l.text[1] # "/"
                /\ l.text = DotDots(Len(Parent(t)) - Len(prefix))
                             \o SubSeq(s, Len(prefix) + 1, Len(s))
                /\ (l.srv = srv \/ (InTree(l.src) /\ InTree(target))) =>
                      Walk(Parent(Located(target, srv)), l.text)
                          = Located(l.src, srv)

\* A link from the pool to build/a.deb, made when the tree was at /srv and
\* resolved after the tree was moved to /mnt/disk/srv.
C19_Witness ==
    LET target == <<"/", "srv", "repo", "pool", "main", "a.deb">> IN
    /\ Exists(links[target])
    /\ Content(links[target]).text = <<"..", "..", "..", "build", "a.deb">>
    /\ Content(links[target]).srv = TreeRoot
    /\ srv = <<"/", "mnt", "disk", "srv">>
    /\ Walk(Parent(Located(target, srv)), Content(links[target]).text)
          = <<"/", "mnt", "disk", "srv", "build", "a.deb">>

\* The statements of sign_repo, which follow the composition of the manifest.
AfterManifest == {"enter", "import", "detach", "clearsign", "export", "exit"}

\* Architecture a is done: the scanner found no package of it, or its index
\* and its compressed index are on disk with the content data holds for it.
Finalized(a) ==
    \/ ScanPackages(pool, a) = << >>
    \/ /\ a \in scanned
       /\ \E k \in 1..Len(data) :
             /\ data[k].arch = a
             /\ Exists(packages[args.suite][a])
             /\ ReadText(Content(packages[args.suite][a])) = data[k].packages[2]
             /\ packages_gz[args.suite][a] = File(data[k].packages_gz[2])

\* C20: in every step of a build, the pool is changed only by the pool
\* linker, and while the linker runs no architecture has been scanned and no
\* index file is written; the manifest is written only when every requested
\* architecture is done, its index and compressed index on disk or the
\* architecture skipped as empty; and from the writing of the manifest to
\* the end of the build no index file is modified.
C20_BuildOrdering ==
    [][ /\ (pool' # pool) => pc = "link"
        /\ (pc = "link") =>
              (scanned = {} /\ data = << >> /\ UNCHANGED <<packages, packages_gz>>)
        /\ (\E s \in Suites : Exists(release'[s]) /\ release'[s] # release[s]) =>
              /\ pc = "scan"
              /\ \A k \in 1..Len(args.arches) : Finalized(args.arches[k])
              /\ UNCHANGED <<packages, packages_gz, pool>>
        /\ (pc \in AfterManifest) => UNCHANGED <<packages, packages_gz>> ]_vars

\* The manifest has been written after amd64 and arm64 were scanned and
\* persisted and the requested architecture all was skipped as empty.
C20_Witness ==
    /\ pc \in AfterManifest
    /\ args.arches = DefaultArches
    /\ scanned = {"amd64", "arm64"}
    /\ ScanPackages(pool, "all") = << >>
    /\ Exists(packages_gz[args.suite]["arm64"])
    /\ Exists(release[args.suite])

\* gpg --verify of a detached signature against a document, with the keys of
\* an exported key file.
Verifies(sig, document, keys) ==
    /\ sig.mode = "detach"
    /\ sig.over = <<document>>
    /\ keys = <<"pubkey">>

\* Manifests that differ from a manifest in one place: the date, or the
\* length on the first entry line.
Tampered(m) ==
    {[m EXCEPT !.scalars[9][2] = @ + 1]}
    \cup (IF Len(m.hashes) >= 2 THEN {[m EXCEPT !.hashes[2][4] = @ + 1]} ELSE {})

\* C21: when the signing chain has run to its end, the detached signature
\* it wrote verifies against the Release manifest on disk with the public
\* key it exported, and against no manifest that differs from it in one
\* place.
C21_DetachedSignatureVerifies ==
    (chain = ChainOrder) =>
        /\ Exists(release[SignRepoSuite])
        /\ Exists(release_gpg[SignRepoSuite])
        /\ Exists(pub_gpg)
        /\ Verifies(Content(release_gpg[SignRepoSuite]),
                    Content(release[SignRepoSuite]), Content(pub_gpg))
        /\ \A t \in Tampered(Content(release[SignRepoSuite])) :
              ~Verifies(Content(release_gpg[SignRepoSuite]), t, Content(pub_gpg))

\* C22: no step of the signing chain, failed or not, changes a Release
\* manifest; the outputs of the two sign_file calls and the manifest are
\* three different files of one directory, and when the chain has run to its
\* end the three exist there, Release.gpg and InRelease written by this call
\* and the Release still the one the chain found.
C22_SigningLeavesManifest ==
    [][ /\ (pc \in AfterManifest) =>
              /\ release' = release
              /\ \A s \in Suites : gen'[<<s, "Release">>] = gen[<<s, "Release">>]
        /\ Cardinality({"Release", SignOutput(TRUE), SignOutput(FALSE)}) = 3
        /\ (chain' = ChainOrder) =>
              /\ Exists(release'[SignRepoSuite])
              /\ Exists(release_gpg'[SignRepoSuite])
              /\ Exists(inrelease'[SignRepoSuite])
              /\ gen'[<<SignRepoSuite, "Release.gpg">>] = run'
              /\ gen'[<<SignRepoSuite, "InRelease">>] = run'
              /\ DOMAIN Content(release'[SignRepoSuite]) = {"scalars", "hashes"} ]_vars

\* The chain has run to its end: the clear-signed document embeds the
\* manifest, and the manifest this build wrote is on disk beside it.
C22_Witness ==
    /\ Completed
    /\ chain = ChainOrder
    /\ WrittenNow(SignRepoSuite, "Release")
    /\ Exists(release_gpg[SignRepoSuite])
    /\ Exists(inrelease[SignRepoSuite])
    /\ Content(inrelease[SignRepoSuite]).embeds = release[SignRepoSuite]
    /\ Content(release[SignRepoSuite]) = CreateReleaseFile(data, args.suite, now)

\* C23: a hard failure of the scanner ends the build at once, with the
\* error, before a manifest is written and before signing starts: the
\* Release of the suite, deleted at the start of create_repo, stays absent.
\* An architecture that a build passed over, or that the manifest it wrote
\* leaves out, is one for which the scanner gave the no-packages signal: the
\* pool holds no package of it.
C23_HardFailureStopsBuild ==
    /\ (exc.at = "scan") =>
          /\ exc.type = "ScanError"
          /\ pc = "idle"
          /\ ~Exists(release[args.suite])
          /\ gen[<<args.suite, "Release">>] = 0
          /\ chain = << >>
          /\ gpg_home = 0
    /\ (pc = "scan" /\ exc = NoExc) =>
          \A k \in 1..(idx - 1) :
              args.arches[k] \in scanned \/ ScanPackages(pool, args.arches[k]) = << >>
    /\ (WrittenNow(args.suite, "Release") /\ Exists(release[args.suite])) =>
          \A a \in RangeOf(args.arches) :
              a \in RangeOf(ManifestArchitectures(Content(release[args.suite])))
                  \/ ScanPackages(pool, a) = << >>

\* A build failed in the scanner after the index of an architecture was
\* written: the suite has index files and no manifest.
C23_Witness ==
    /\ Failed
    /\ exc = Exc("ScanError", "scan")
    /\ scanned # {}
    /\ idx > 1
    /\ ~Exists(release[args.suite])
    /\ \E a \in ARCH : Exists(packages[args.suite][a])

\* The index files of the requested architectures that are on disk.
OnDisk(indices, suite, arches) ==
    {a \in RangeOf(arches) : Exists(indices[suite][a])}

\* C26: in every scan of create_repo the merge hint given to the scanner is
\* exactly the Packages paths of the requested architectures whose file is
\* on disk when that scan starts, each once, as absolute paths of the
\* repository, in the order of the request; a path that does not exist is
\* left out, so the hint is empty when none of them exists.
C26_MergeHintIsExistingIndices ==
    [][ (pc = "scan" /\ ~ArchesExhausted(args.arches, idx)
           /\ <<pc, idx>>' # <<pc, idx>>) =>
          LET on_disk == OnDisk(packages, args.suite, args.arches) IN
          /\ RangeOf(previous') =
                {RepoRoot \o PackagesFile(args.suite, a) : a \in on_disk}
          /\ Len(previous') = Cardinality(on_disk)
          /\ \A k \in 1..Len(previous') : previous'[k][1] = "/"
          /\ \A i, j \in 1..Len(previous') :
                i < j => \E x, y \in 1..Len(args.arches) :
                            /\ x < y
                            /\ previous'[i][7] = BinaryDir(args.arches[x])
                            /\ previous'[j][7] = BinaryDir(args.arches[y])
          /\ (on_disk = {}) => previous' = << >> ]_vars

\* The third scan of a first build of three architectures was given the one
\* index that existed, that of amd64, written by the second scan.
C26_Witness ==
    /\ pc = "scan"
    /\ idx = 4
    /\ run = 1
    /\ args.arches = DefaultArches
    /\ previous = << <<"/", "srv", "repo", "dists", args.suite, "main",
                       "binary-amd64", "Packages">> >>

\* C27: the step in which the pool linker rejects a candidate leaves the
\* pool as it is, the entry of that name included; from the call of
\* build_repo to the rejection no Release, InRelease, Release.gpg, index
\* file or public key file is written or removed, and neither scanning nor
\* signing has started; the entries linked for the candidates before the
\* rejected one are in place when the build has failed.
C27_RejectionLeavesPublishedTree ==
    [][ /\ (pc = "link") =>
              /\ UNCHANGED <<release, release_gpg, inrelease, pub_gpg, gen,
                             packages, packages_gz>>
              /\ scanned' = {} /\ chain' = << >> /\ gpg_home' = 0 /\ data' = << >>
        /\ (pc = "link" /\ pc' = "idle") =>
              /\ exc' = Exc("ValueError", "link")
              /\ pool' = pool
              /\ idx' = idx
              /\ Suffix(ResolvedPkg(pool, args.pkgs[idx])) # ".deb"
              /\ ~IsArchive(ResolvedPkg(pool, args.pkgs[idx]))
              /\ \A k \in 1..(idx - 1) :
                    Suffix(args.pkgs[k]) = ".deb" =>
                        Exists(pool'[args.pkgs[k].name]) ]_vars

\* A second build rejected d.txt after it linked a.deb: the entry a.deb is
\* in the pool, d.txt is not, and the triple the first build published in
\* dists/stable is on disk, as the first build wrote it.
C27_Witness ==
    /\ Failed
    /\ exc = Exc("ValueError", "link")
    /\ run = 2
    /\ args.pkgs = <<PkgA, Readme>>
    /\ pool["a.deb"] = File(PkgA)
    /\ pool["d.txt"] = NoFile
    /\ \A f \in TripleFiles : gen[<<SignRepoSuite, f>>] = 1
    /\ gen[PubKey] = 1
    /\ Exists(release[SignRepoSuite])

\* Operation p is between TempGPG.__enter__ and TempGPG.__exit__.
Inside(p) == ring_ops[p].at \in {"body", "imported", "generated"}

\* C24: the keyring directory of a signing operation that has entered
\* TempGPG exists, was made by that operation, holds no key until the
\* operation imports its own and never the key of another operation; it is
\* not the directory of any operation that runs at the same time, nor a
\* directory an earlier operation left on disk, although all operations use
\* the same parent directory; and no directory ever holds a key of an
\* operation other than the one that made it.
C24_OwnFreshKeyring ==
    /\ \A p \in Ops :
          Inside(p) =>
              LET d == ring_dirs[ring_ops[p].home] IN
              /\ Exists(d)
              /\ Content(d).maker = p
              /\ Content(d).keys \subseteq {p}
              /\ (ring_ops[p].at = "body") => Content(d).keys = {}
              /\ \A q \in Ops \ {p} :
                    /\ Inside(q) => ring_ops[q].home # ring_ops[p].home
                    /\ (ring_ops[q].at = "done"
                          /\ Exists(ring_dirs[ring_ops[q].home])
                          /\ Content(ring_dirs[ring_ops[q].home]).maker = q) =>
                           ring_ops[q].home # ring_ops[p].home
    /\ \A n \in DirNames :
          Exists(ring_dirs[n]) =>
              Content(ring_dirs[n]).keys \subseteq {Content(ring_dirs[n]).maker}

\* Two operations run at the same time, one has imported its key and the
\* other has not: the directory of the second holds no key.
C24_Witness ==
    /\ ring_ops[1].at = "imported"
    /\ ring_ops[2].at = "body"
    /\ ring_ops[1].home # ring_ops[2].home
    /\ Content(ring_dirs[ring_ops[1].home]).keys = {1}
    /\ Content(ring_dirs[ring_ops[2].home]).keys = {}

\* C25: a call of create_packages_gz with skip_update set leaves every file
\* on disk as it is; when the sibling Packages.gz exists the call returns
\* its path and the bytes the file holds, whatever index text it was given
\* and whatever the time; when it does not exist the call raises
\* FileNotFoundError.
C25_SkipUpdateReturnsPersisted ==
    [][ gz_ret'.skip_update =>
          /\ UNCHANGED <<packages, packages_gz, fsTriple, pub_gpg, pool>>
          /\ (gz_ret'.exc = "none") =>
                /\ gz_ret'.value[1] \in IndexPaths("stable")
                /\ gz_ret'.value[1][5] = "Packages.gz"
                /\ Exists(IndexFileAt(gz_ret'.value[1]))
                /\ gz_ret'.value[2] = Content(IndexFileAt(gz_ret'.value[1]))
          /\ (gz_ret'.exc # "none") =>
                /\ gz_ret'.exc = "FileNotFoundError"
                /\ \E a \in GzArches : ~Exists(packages_gz["stable"][a]) ]_vars

\* A call with skip_update at second 1 returned the arm64 Packages.gz that
\* was compressed at second 0.
C25_Witness ==
    /\ gz_ret.skip_update
    /\ gz_ret.exc = "none"
    /\ now = 1
    /\ gz_ret.value = <<PackagesGzFile(PackagesFile("stable", "arm64")),
                        GzipCompress(Utf8(<<233, 10>>), 0)>>
    /\ packages_gz["stable"]["arm64"] = File(gz_ret.value[2])

\* C28: whenever a change_cwd context is left, by return, by the ValueError
\* of an empty architecture or by any other error, the working directory is
\* the one the context found at its entry, whatever the body changed it to;
\* hence with no context open the working directory is the one the program
\* started in.
C28_CwdRestored ==
    [][ /\ (Len(frames') < Len(frames)) => cwd' = frames[Len(frames)]
        /\ (Len(frames') = Len(frames) /\ cwd_exc' = "FileNotFoundError")
              => cwd' = cwd
        /\ (frames' = << >>) => cwd' = StartDir ]_vars

\* The outer context was left by an error other than the ValueError and the
\* working directory is the starting directory again.
C28_Witness ==
    /\ frames = << >>
    /\ cwd_exc = "ScanError"
    /\ cwd = StartDir

\* The order of versions the claim states: "latest" is above every numbered
\* version, numbered versions compare by their components.
StrictlyOlder(new_text, old_text) ==
    IF old_text = "latest" THEN new_text # "latest"
    ELSE IF new_text = "latest" THEN FALSE
    ELSE VersionGreater(Release(old_text), Release(new_text))

\* C29: no build_tap call removes a Ruby file of the tap or replaces it by
\* a file of the same name that declares a strictly older version, "latest"
\* being newer than every numbered version.
C29_TapVersionNeverDecreases ==
    [][ \A d \in TapDirs, n \in TapNames :
          Exists(tap[d][n]) =>
              /\ Exists(tap'[d][n])
              /\ ~StrictlyOlder(Content(tap'[d][n]), Content(tap[d][n])) ]_vars

\* The requests sent for a URL without streaming, and those of them that
\* brought a response.
Plain(requests, url) ==
    {i \in DOMAIN requests : requests[i].url = url /\ ~requests[i].stream}
Answered(requests, url) == {i \in Plain(requests, url) : requests[i].ok}

\* C30 as stated: the non-streaming GETs of one URL cause at most one
\* underlying request.
C30_AtMostOneRequest ==
    \A url \in Urls : Cardinality(Plain(sent, url)) <= 1

\* What holds of the cache and the requests sent in every state: an entry
\* is the response of the only answered non-streaming request of its URL,
\* every non-streaming request before it raised, and a URL without an entry
\* had no answered non-streaming request.
CacheKept ==
    \A url \in Urls :
        /\ Cardinality(Answered(sent, url)) <= 1
        /\ Exists(cache[url]) <=> Answered(sent, url) # {}
        /\ Exists(cache[url]) =>
              /\ Answered(sent, url) = {Content(cache[url])}
              /\ \A i \in Plain(sent, url) : i <= Content(cache[url])

\* C30 amended: the non-streaming GETs of one URL cause at most one
\* underlying request that brings a response (a request that raises stores
\* nothing and the next such GET sends a request again); once a response
\* is stored every non-streaming GET of the URL returns it without a
\* request, whatever else is passed; a streaming GET always sends a request
\* and leaves the cache alone, returning the response of that request; an
\* entry once stored is never replaced or removed.
C30_CachedGet ==
    [][ /\ CacheKept'
        /\ \A url \in Urls : Exists(cache[url]) => cache'[url] = cache[url]
        /\ (~Truthy(returned'.stream) /\ Exists(cache[returned'.url])) =>
              /\ sent' = sent
              /\ returned'.exc = "none"
              /\ returned'.value = Content(cache[returned'.url])
        /\ Truthy(returned'.stream) =>
              /\ Len(sent') = Len(sent) + 1
              /\ sent'[Len(sent')].stream
              /\ sent'[Len(sent')].url = returned'.url
              /\ cache' = cache
              /\ returned'.value \in {0, Len(sent')} ]_vars

\* After a first request for u that raised, a second one was answered and
\* stored, a streaming request for u followed, and a GET of u with stream
\* None returned the stored response.
C30_Witness ==
    /\ sent = <<Request("u", FALSE, FALSE), Request("u", FALSE, TRUE),
                Request("u", TRUE, TRUE)>>
    /\ cache["u"] = File(2)
    /\ returned = [url |-> "u", stream |-> "None", value |-> 2, exc |-> "none"]


=============================================================================
